---- MODULE Spec2Model ----
(***************************************************************************)
(* A model of gl-demo's terrain engine: the staggered height grid, the     *)
(* tile mesh generator, the level-of-detail tile cache and the main loop   *)
(* that drives them.                                                       *)
(*                                                                         *)
(* The program computes with f32.  An f32 is modelled bit-exactly as a     *)
(* record [k, s, e, m]: k is "num", "inf" or "nan"; a number is            *)
(* (-1)^s * m * 2^e with m < 2^24, normalised (m >= 2^23) unless it is      *)
(* zero (m = 0, e = 0, s = 0) or subnormal (e = -149).  Every arithmetic   *)
(* operator rounds to nearest, ties to even, as IEEE 754 binary32 does.    *)
(* All intermediate integers stay below 2^31.                              *)
(***************************************************************************)
EXTENDS Integers, Sequences, FiniteSets, TLC

\* ------------------------------------------------------------------ f32

Two12 == 2^12
Two22 == 2^22
Two23 == 2^23
Two24 == 2^24
\* Exponent of the least significant mantissa bit of the smallest and of the
\* largest finite f32.
F32MinExp == 0 - 149
F32MaxExp == 127 - 23

F32Nan == [k |-> "nan", s |-> 0, e |-> 0, m |-> 0]
F32Inf(s) == [k |-> "inf", s |-> s, e |-> 0, m |-> 0]
F32Zero == [k |-> "num", s |-> 0, e |-> 0, m |-> 0]
F32NegInf == F32Inf(1)

IsNum(a) == a.k = "num"
IsNan(a) == a.k = "nan"
IsInf(a) == a.k = "inf"
IsZero(a) == a.k = "num" /\ a.m = 0

\* The one member of a singleton set.  { F(x) : x \in {e} } evaluates e once
\* and hands F its value; the operators below are written this way so that
\* no intermediate result is computed twice.
Only(S) == CHOOSE r \in S : TRUE

\* Number of significant bits of n, 0 <= n < 2^31.
BitLen(n) ==
  IF n < 65536
  THEN IF n < 256
       THEN IF n < 16
            THEN IF n < 4 THEN (IF n < 2 THEN n ELSE 2) ELSE (IF n < 8 THEN 3 ELSE 4)
            ELSE IF n < 64 THEN (IF n < 32 THEN 5 ELSE 6) ELSE (IF n < 128 THEN 7 ELSE 8)
       ELSE IF n < 4096
            THEN IF n < 1024 THEN (IF n < 512 THEN 9 ELSE 10)
                 ELSE (IF n < 2048 THEN 11 ELSE 12)
            ELSE IF n < 16384 THEN (IF n < 8192 THEN 13 ELSE 14)
                 ELSE (IF n < 32768 THEN 15 ELSE 16)
  ELSE IF n < 16777216
       THEN IF n < 1048576
            THEN IF n < 262144 THEN (IF n < 131072 THEN 17 ELSE 18)
                 ELSE (IF n < 524288 THEN 19 ELSE 20)
            ELSE IF n < 4194304 THEN (IF n < 2097152 THEN 21 ELSE 22)
                 ELSE (IF n < 8388608 THEN 23 ELSE 24)
       ELSE IF n < 268435456
            THEN IF n < 67108864 THEN (IF n < 33554432 THEN 25 ELSE 26)
                 ELSE (IF n < 134217728 THEN 27 ELSE 28)
            ELSE IF n < 1073741824 THEN (IF n < 536870912 THEN 29 ELSE 30)
                 ELSE 31

F32Num(s, e, m) == [k |-> "num", s |-> s, e |-> e, m |-> m]

\* The last step of rounding: the kept mantissa q (below 2^24 + 1) at
\* exponent e.
RoundPack(s, q, e) ==
  IF q = 0 THEN F32Zero
  ELSE IF q = Two24
       THEN (IF e + 1 > F32MaxExp THEN F32Inf(s) ELSE F32Num(s, e + 1, Two23))
  ELSE IF e > F32MaxExp THEN F32Inf(s)
  ELSE F32Num(s, e, q)

\* Drop the sh low bits of m (0 < sh), rounding to nearest, ties to even.
RoundShift(s, m, e, sticky, sh) ==
  IF sh > 31 THEN F32Zero
  ELSE IF sh = 31
       THEN RoundPack(s, IF m > 2^30 \/ (m = 2^30 /\ sticky) THEN 1 ELSE 0, e + sh)
  ELSE Only({ RoundPack(s,
                        IF qr[2] > qr[3] \/ (qr[2] = qr[3] /\ (sticky \/ qr[1] % 2 = 1))
                        THEN qr[1] + 1 ELSE qr[1],
                        e + sh) :
              qr \in { << m \div 2^sh, m % 2^sh, 2^(sh - 1) >> } })

\* m of L bits at exponent e, L <= 24 unless sh > 0.
RoundLen(s, m, e, sticky, L) ==
  IF L - 24 > 0 \/ F32MinExp - e > 0
  THEN RoundShift(s, m, e, sticky, IF L - 24 >= F32MinExp - e THEN L - 24 ELSE F32MinExp - e)
  ELSE \* exact: shift the mantissa up to its normal place
       Only({ IF e - up > F32MaxExp THEN F32Inf(s) ELSE F32Num(s, e - up, m * 2^up) :
              up \in { IF 24 - L <= e - F32MinExp THEN 24 - L ELSE e - F32MinExp } })

RoundV(s, m, e, sticky) ==
  IF m = 0 THEN F32Zero ELSE RoundLen(s, m, e, sticky, BitLen(m))

\* The f32 nearest to (-1)^s * (m + f) * 2^e, where 0 <= m < 2^31 and f is a
\* fraction in [0,1) that is nonzero exactly when sticky holds.  When sticky
\* holds m has at least 25 bits, so f never decides more than a tie.
F32Round(s, m, e, sticky) ==
  Only({ RoundV(s, mm, ee, sticky) : mm \in {m}, ee \in {e} })

\* usize as f32 (and isize as f32 for negative n), |n| < 2^31.
F32FromInt(n) == IF n < 0 THEN F32Round(1, 0 - n, 0, FALSE) ELSE F32Round(0, n, 0, FALSE)

F32Neg(a) == Only({ IF IsNan(x) \/ IsZero(x) THEN x ELSE [x EXCEPT !.s = 1 - x.s] :
                    x \in {a} })
F32Abs(a) == Only({ IF x.k = "nan" THEN x ELSE [x EXCEPT !.s = 0] : x \in {a} })

\* Mantissa and exponent with the mantissa shifted into [2^23, 2^24).
NormM(a) == IF a.m >= Two23 THEN a.m ELSE a.m * 2^(24 - BitLen(a.m))
NormE(a) == IF a.m >= Two23 THEN a.e ELSE a.e - (24 - BitLen(a.m))

\* |a| < |b| for two numbers.
MagLt(a, b) ==
  IF a.m = 0 THEN b.m # 0
  ELSE IF b.m = 0 THEN FALSE
  ELSE NormE(a) < NormE(b) \/ (NormE(a) = NormE(b) /\ NormM(a) < NormM(b))

EqV(a, b) == IF IsNan(a) \/ IsNan(b) THEN FALSE ELSE a = b

LtV(a, b) ==
  IF IsNan(a) \/ IsNan(b) THEN FALSE
  ELSE IF IsInf(a) THEN a.s = 1 /\ ~(IsInf(b) /\ b.s = 1)
  ELSE IF IsInf(b) THEN b.s = 0
  ELSE IF a.s = 1 /\ b.s = 0 THEN TRUE
  ELSE IF a.s = 0 /\ b.s = 1 THEN FALSE
  ELSE IF a.s = 0 THEN MagLt(a, b)
  ELSE MagLt(b, a)

\* ==, <, <=, > of two f32: false when either is NaN.
F32Eq(a, b) == \E x \in {a}, y \in {b} : EqV(x, y)
F32Lt(a, b) == \E x \in {a}, y \in {b} : LtV(x, y)
F32Le(a, b) == \E x \in {a}, y \in {b} : LtV(x, y) \/ EqV(x, y)
F32Gt(a, b) == \E x \in {a}, y \in {b} : LtV(y, x)

\* Aligned mantissas A (with three guard bits) and B, and whether bits of
\* the smaller operand were shifted out.
AddAligned(sa, sb, A, B, lost, e) ==
  IF sa = sb
  THEN RoundV(sa, A + B, e, lost)
  ELSE RoundV(sa, A - B - (IF lost THEN 1 ELSE 0), e, lost)

\* a + b for two nonzero numbers with |a| >= |b|.
AddNorm(sa, ma, ea, sb, mb, eb) ==
  IF ea - eb >= 28
  THEN AddAligned(sa, sb, ma * 8, 0, TRUE, ea - 3)
  ELSE Only({ AddAligned(sa, sb, ma * 8, (mb * 8) \div p, (mb * 8) % p # 0, ea - 3) :
              p \in { 2^(ea - eb) } })

AddOrdered(a, b) ==
  Only({ AddNorm(a.s, n[1], n[2], b.s, n[3], n[4]) :
         n \in { << NormM(a), NormE(a), NormM(b), NormE(b) >> } })

AddV(a, b) ==
  IF IsNan(a) \/ IsNan(b) THEN F32Nan
  ELSE IF IsInf(a) THEN (IF IsInf(b) /\ a.s # b.s THEN F32Nan ELSE a)
  ELSE IF IsInf(b) THEN b
  ELSE IF a.m = 0 THEN b
  ELSE IF b.m = 0 THEN a
  ELSE IF MagLt(a, b) THEN AddOrdered(b, a)
  ELSE AddOrdered(a, b)

\* a + b and a - b
F32Add(a, b) == Only({ AddV(x, y) : x \in {a}, y \in {b} })
F32Sub(a, b) == Only({ AddV(x, F32Neg(y)) : x \in {a}, y \in {b} })

\* The 48-bit product as hi * 2^24 + lo.
MulWide(s, hi, lo, e) == RoundV(s, hi * 4 + (lo \div Two22), e, lo % Two22 # 0)

MulLimbs(s, a1, a0, b1, b0, e) ==
  Only({ MulWide(s, a1 * b1 + (t[1] \div Two12) + (t[2] \div Two24), t[2] % Two24, e) :
         t \in { Only({ << mid, (mid % Two12) * Two12 + a0 * b0 >> :
                        mid \in { a1 * b0 + a0 * b1 } }) } })

MulNorm(s, ma, mb, e) ==
  MulLimbs(s, ma \div Two12, ma % Two12, mb \div Two12, mb % Two12, e)

MulV(a, b) ==
  IF IsNan(a) \/ IsNan(b) THEN F32Nan
  ELSE IF IsInf(a) \/ IsInf(b)
       THEN (IF IsZero(a) \/ IsZero(b) THEN F32Nan ELSE F32Inf((a.s + b.s) % 2))
  ELSE IF a.m = 0 \/ b.m = 0 THEN F32Zero
  ELSE Only({ MulNorm((a.s + b.s) % 2, n[1], n[2], n[3]) :
              n \in { << NormM(a), NormM(b), NormE(a) + NormE(b) + 22 >> } })

\* a * b
F32Mul(a, b) == Only({ MulV(x, y) : x \in {a}, y \in {b} })

\* Long division, n more bits (n <= 7): from quotient qr[1] and remainder
\* qr[2] < d < 2^24 to those of (remainder * 2^n) by d.
DivStep(qr, d, n) ==
  << qr[1] * 2^n + ((qr[2] * 2^n) \div d), (qr[2] * 2^n) % d >>

\* <<quotient, remainder>> of ma * 2^26 by mb.
LongDiv(ma, mb) ==
  Only({ DivStep(q3, mb, 5) :
         q3 \in { Only({ DivStep(q2, mb, 7) :
                  q2 \in { Only({ DivStep(q1, mb, 7) :
                           q1 \in { DivStep(<< ma \div mb, ma % mb >>, mb, 7) } }) } }) } })

DivNorm(s, ma, mb, e) ==
  Only({ RoundV(s, qr[1], e, qr[2] # 0) : qr \in { LongDiv(ma, mb) } })

DivV(a, b) ==
  IF IsNan(a) \/ IsNan(b) THEN F32Nan
  ELSE IF IsInf(a) THEN (IF IsInf(b) THEN F32Nan ELSE F32Inf((a.s + b.s) % 2))
  ELSE IF IsInf(b) THEN F32Zero
  ELSE IF b.m = 0 THEN (IF a.m = 0 THEN F32Nan ELSE F32Inf((a.s + b.s) % 2))
  ELSE IF a.m = 0 THEN F32Zero
  ELSE Only({ DivNorm((a.s + b.s) % 2, n[1], n[2], n[3]) :
              n \in { << NormM(a), NormM(b), NormE(a) - NormE(b) - 26 >> } })

\* a / b
F32Div(a, b) == Only({ DivV(x, y) : x \in {a}, y \in {b} })

\* The f32 nearest to the decimal literal n / d (|n|, d < 2^24), which is how
\* rustc reads a literal such as 0.5 or 1.49.
F32Lit(n, d) == F32Div(F32FromInt(n), F32FromInt(d))

FloorV(a) ==
  IF ~IsNum(a) \/ a.m = 0 \/ a.e >= 0 THEN a
  ELSE IF 0 - a.e >= 24 THEN (IF a.s = 0 THEN F32Zero ELSE F32FromInt(0 - 1))
  ELSE Only({ IF a.s = 0 THEN F32FromInt(a.m \div p)
              ELSE F32FromInt(0 - ((a.m \div p) + (IF a.m % p # 0 THEN 1 ELSE 0))) :
              p \in { 2^(0 - a.e) } })

\* f32::floor
F32Floor(a) == Only({ FloorV(x) : x \in {a} })

MaxV(a, b) ==
  IF IsNan(a) THEN b
  ELSE IF IsNan(b) THEN a
  ELSE IF LtV(a, b) THEN b ELSE a

\* f32::max: a NaN operand is ignored.
F32Max(a, b) == Only({ MaxV(x, y) : x \in {a}, y \in {b} })

\* (r * 2^n) mod d, r < d < 2^24.
RECURSIVE ShiftMod(_, _, _)
ShiftMod(r, d, n) ==
  IF n < 7 THEN (r * 2^n) % d
  ELSE Only({ ShiftMod(rr, d, nn) : rr \in { (r * 128) % d }, nn \in { n - 7 } })

RemV(a, b) ==
  IF IsNan(a) \/ IsNan(b) \/ IsInf(a) \/ IsZero(b) THEN F32Nan
  ELSE IF IsInf(b) \/ a.m = 0 THEN a
  ELSE IF MagLt(a, b) THEN a
  ELSE RoundV(a.s, ShiftMod(a.m % b.m, b.m, a.e - b.e), b.e, FALSE)

\* The % of two f32 (C's fmodf): exact, with the sign of a.
F32Rem(a, b) == Only({ RemV(x, y) : x \in {a}, y \in {b} })

\* `as usize` of an f32: NaN and negative values give 0, values too large
\* saturate.  UsizeMax stands for usize::MAX; a value of 2^31 or more is
\* also given as UsizeMax (the program only takes the minimum of such a
\* value with a small one).
UsizeMax == 2147483647
ToUsizeV(a) ==
  IF IsNan(a) THEN 0
  ELSE IF IsInf(a) THEN (IF a.s = 1 THEN 0 ELSE UsizeMax)
  ELSE IF a.s = 1 \/ a.m = 0 THEN 0
  ELSE IF a.e > 7 THEN UsizeMax
  ELSE IF a.e >= 0 THEN (IF a.m >= 2^(31 - a.e) THEN UsizeMax ELSE a.m * 2^a.e)
  ELSE IF 0 - a.e >= 24 THEN 0
  ELSE a.m \div 2^(0 - a.e)
F32ToUsize(a) == Only({ ToUsizeV(x) : x \in {a} })

F32Half == F32Lit(1, 2)
F32One == F32FromInt(1)
F32Two == F32FromInt(2)

\* ------------------------------------------------------- the height grid

\* const ROW_SPACING: f32 = 0.8660254037844386, as rustc rounds it to f32.
ROW_SPACING == [k |-> "num", s |-> 0, e |-> 0 - 24, m |-> 14529495]

\* Vec3::from([x, y, z]); components are read as v[0], v[1], v[2].
Vec3(x, y, z) == (0 :> x) @@ (1 :> y) @@ (2 :> z)

Min(a, b) == IF a <= b THEN a ELSE b

VARIABLES
  geometry,   \* SimpleHeightmapGeometry: width, rows, x_offset, z_offset, resolution
  lods,       \* SimpleHeightmap.lods: the LoDTile of every tile
  lod_zone,   \* SimpleHeightmap.lod_zone
  uploads,    \* how many gpu::Model were built (gpu::Model::from_mem)
  calls,      \* the viewer positions of the update_lod calls made so far
  mesh,       \* the locals of a running as_geometry call
  op,         \* the operation that ran last
  arg,        \* its argument
  ret,        \* what it returned
  character,  \* physics::CharacterState
  movement,   \* MovementState
  camera,     \* display_math::Camera: loc, dir
  frame,      \* frames of the main loop, each with one do_char_movement
  pc          \* where run() stands in its loop

\* A SimpleHeightmapGeometry of `width` columns and `height` rows whose
\* heights vector was resized to width * height zero samples.
NewGeometry(width, height, x_offset, z_offset, resolution) ==
  [width |-> width, len |-> width * height,
   x_offset |-> x_offset, z_offset |-> z_offset, resolution |-> resolution]

\* heights[index].height: with_size fills the grid with height 0.0.
HeightAt(g, index) == F32Zero

\* SimpleHeightmapGeometry::height
Height(g) == g.len \div g.width

\* SimpleHeightmapGeometry::get_index
GetIndex(g, x, z) == x + z * g.width

\* SimpleHeightmapGeometry::get_position
GetPosition(g, index) ==
  Vec3(F32Add(F32Mul(F32Add(F32FromInt(index % g.width),
                            IF (index \div g.width) % 2 = 0 THEN F32Zero ELSE F32Half),
                     g.resolution),
              g.x_offset),
       HeightAt(g, index),
       F32Add(F32Mul(F32Mul(F32FromInt(index \div g.width), ROW_SPACING), g.resolution),
              g.z_offset))

\* The column, once the row unpos_z is known.
UnposX(g, pos, unpos_z) ==
  F32Floor(F32Sub(F32Div(F32Sub(pos[0], g.x_offset), g.resolution),
                  IF F32Eq(F32Rem(unpos_z, F32Two), F32Zero) THEN F32Zero ELSE F32Half))

\* SimpleHeightmapGeometry::get_index_from_position
GetIndexFromPosition(g, pos) ==
  Only({ GetIndex(g, F32ToUsize(UnposX(g, pos, unpos_z)), F32ToUsize(unpos_z)) :
         unpos_z \in { F32Floor(F32Div(F32Div(F32Sub(pos[2], g.z_offset), g.resolution),
                                       ROW_SPACING)) } })

\* Vec::push, when the condition holds
PushIf(cond, seq, v) == IF cond THEN Append(seq, v) ELSE seq

\* A plausible slip: odd rows take the same columns above and below as
\* even rows do.
GetAdjacentVerticesNoParity(g, x, z) ==
  LET row_above == z - 1
      row_below == z + 1
      x_left == x - 1
      x_right == x + 1
      a1 == PushIf(row_above >= 0 /\ x_left >= 0, <<>>, GetIndex(g, x_left, row_above))
      a2 == PushIf(row_above >= 0, a1, GetIndex(g, x, row_above))
      a3 == PushIf(row_below < Height(g) /\ x_left >= 0, a2, GetIndex(g, x_left, row_below))
      a4 == PushIf(row_below < Height(g), a3, GetIndex(g, x, row_below))
      a5 == PushIf(x_left >= 0, a4, GetIndex(g, x_left, z))
  IN  PushIf(x_right < g.width, a5, GetIndex(g, x_right, z))

\* A plausible slip: the neighbours outside the grid are not left out.
GetAdjacentVerticesUnchecked(g, x, z) ==
  IF z % 2 = 0
  THEN << GetIndex(g, x - 1, z - 1), GetIndex(g, x, z - 1),
          GetIndex(g, x - 1, z + 1), GetIndex(g, x, z + 1),
          GetIndex(g, x - 1, z), GetIndex(g, x + 1, z) >>
  ELSE << GetIndex(g, x, z - 1), GetIndex(g, x + 1, z - 1),
          GetIndex(g, x, z + 1), GetIndex(g, x + 1, z + 1),
          GetIndex(g, x - 1, z), GetIndex(g, x + 1, z) >>

\* SimpleHeightmapGeometry::get_adjacent_vertices
GetAdjacentVertices(g, x, z) ==
  LET row_above == z - 1
      row_below == z + 1
      x_left == x - 1
      x_right == x + 1
      rows ==
        IF z % 2 = 0
        THEN LET a1 == PushIf(row_above >= 0 /\ x_left >= 0, <<>>,
                              GetIndex(g, x_left, row_above))
                 a2 == PushIf(row_above >= 0, a1, GetIndex(g, x, row_above))
                 a3 == PushIf(row_below < Height(g) /\ x_left >= 0, a2,
                              GetIndex(g, x_left, row_below))
             IN  PushIf(row_below < Height(g), a3, GetIndex(g, x, row_below))
        ELSE LET a1 == PushIf(row_above >= 0, <<>>, GetIndex(g, x, row_above))
                 a2 == PushIf(row_above >= 0 /\ x_right < g.width, a1,
                              GetIndex(g, x_right, row_above))
                 a3 == PushIf(row_below < Height(g), a2, GetIndex(g, x, row_below))
             IN  PushIf(row_below < Height(g) /\ x_right < g.width, a3,
                        GetIndex(g, x_right, row_below))
      a5 == PushIf(x_left >= 0, rows, GetIndex(g, x_left, z))
  IN  PushIf(x_right < g.width, a5, GetIndex(g, x_right, z))

\* ------------------------------------------- the grid's operations, alone

vars == <<geometry, lods, lod_zone, uploads, calls, mesh, op, arg, ret,
          character, movement, camera, frame, pc>>

\* The tile cache, and the mesh generator's locals.
cache == <<lods, lod_zone, uploads, calls>>

\* No as_geometry call is running.
NoMesh == [pc |-> "idle"]

\* The character, the keys held, the camera and the main loop.
game == <<character, movement, camera, frame, pc>>

\* No character and no main loop: a heightmap on its own.
NoGame ==
  /\ character = <<>>
  /\ movement = <<>>
  /\ camera = <<>>
  /\ frame = 0
  /\ pc = "none"

\* A SimpleHeightmapGeometry on its own, as the unit tests build it: there is
\* no tile cache around it.
NoCache ==
  /\ lods = <<>>
  /\ lod_zone = <<F32Nan, F32Nan>>
  /\ uploads = 0
  /\ calls = <<>>

\* Bounds of the grids and of the positions asked about.
MaxWidth == 4
MaxHeight == 4
MaxQueryRow == 44
MaxQueryCol == 3

\* The offsets and resolution of the grid of the unit tests (0, 0, 1) and of
\* the floor that run() builds (-100.0, -86.6, 1.0).
GridPlacements ==
  { <<F32Zero, F32Zero, F32One>>,
    <<F32FromInt(0 - 100), F32Neg(F32Lit(866, 10)), F32One>> }

Geometries ==
  { NewGeometry(w, h, p[1], p[2], p[3]) :
      w \in 1..MaxWidth, h \in 1..MaxHeight, p \in GridPlacements }

\* Coordinates, in hundredths of a world unit from the grid's origin, of the
\* positions asked about; 50, 100, 149 and 151 are those of the unit tests.
QueryHundredths == {0, 50, 100, 149, 151, 250}

\* The z of grid row r, as get_position computes it.
RowZ(g, r) ==
  F32Add(F32Mul(F32Mul(F32FromInt(r), ROW_SPACING), g.resolution), g.z_offset)

QueryXs(g) == { F32Add(g.x_offset, F32Lit(n, 100)) : n \in QueryHundredths }
QueryZs(g) ==
  { F32Add(g.z_offset, F32Lit(n, 100)) : n \in QueryHundredths }
    \cup { RowZ(g, r) : r \in 0..MaxQueryRow }

GridInit ==
  /\ geometry \in Geometries
  /\ NoCache
  /\ NoGame
  /\ mesh = NoMesh
  /\ op = "new"
  /\ arg = <<>>
  /\ ret = <<>>

\* The loop body of test_get_index_from_position: a vertex's position, and
\* the index found again from it.
RoundTrip ==
  /\ op = "new"
  /\ \E index \in 0..(geometry.len - 1) :
       /\ op' = "round_trip"
       /\ arg' = index
       /\ ret' = Only({ [pos |-> pos, unpos |-> GetIndexFromPosition(geometry, pos)] :
                        pos \in { GetPosition(geometry, index) } })
  /\ UNCHANGED <<geometry, cache, mesh, game>>

IndexFromPosition ==
  /\ op = "new"
  /\ \E x \in QueryXs(geometry), z \in QueryZs(geometry) :
       /\ op' = "get_index_from_position"
       /\ arg' = Vec3(x, F32Zero, z)
       /\ ret' = GetIndexFromPosition(geometry, Vec3(x, F32Zero, z))
  /\ UNCHANGED <<geometry, cache, mesh, game>>

AdjacentVertices ==
  /\ op = "new"
  /\ \E x \in 0..(geometry.width - 1), z \in 0..(Height(geometry) - 1) :
       /\ op' = "get_adjacent_vertices"
       /\ arg' = <<x, z>>
       /\ ret' = GetAdjacentVertices(geometry, x, z)
  /\ UNCHANGED <<geometry, cache, mesh, game>>

\* One call on a freshly built grid.
GridNext == RoundTrip \/ IndexFromPosition \/ AdjacentVertices

SpecGrid == GridInit /\ [][GridNext]_vars

\* C1: for every grid and every valid index i,
\* get_index_from_position(get_position(i)) = i.
RoundTripExact == op = "round_trip" => ret.unpos = arg

\* ---------------------------------------------------------- adjacency

Range(seq) == { seq[k] : k \in 1..Len(seq) }

\* C2: if vertex j is among the vertices get_adjacent_vertices returns for
\* vertex i, then i is among those it returns for j.
AdjacencySymmetric ==
  op = "get_adjacent_vertices" =>
    \A j \in Range(ret) :
      GetIndex(geometry, arg[1], arg[2]) \in
        Range(GetAdjacentVertices(geometry, j % geometry.width, j \div geometry.width))

\* An interior vertex of an odd row, with its six neighbours.
AdjacencySymmetricWitness ==
  op = "get_adjacent_vertices" /\ arg[2] % 2 = 1 /\ Cardinality(Range(ret)) = 6

OnBorderX(g, x) == x = 0 \/ x = g.width - 1
OnBorderZ(g, z) == z = 0 \/ z = Height(g) - 1

\* C3, as stated: on a grid of at least 2x2 vertices a corner vertex has
\* exactly 2 neighbours, any other border vertex 3 or 4, an interior vertex 6.
AdjacentCountsAsStated ==
  (op = "get_adjacent_vertices" /\ geometry.width >= 2 /\ Height(geometry) >= 2) =>
    CASE OnBorderX(geometry, arg[1]) /\ OnBorderZ(geometry, arg[2]) -> Len(ret) = 2
      [] OnBorderX(geometry, arg[1]) \/ OnBorderZ(geometry, arg[2]) -> Len(ret) \in {3, 4}
      [] OTHER -> Len(ret) = 6

\* The end of a row that the stagger pulls in: the left end of an even row,
\* the right end of an odd row. The other end of the row juts out.
PulledIn(g, x, z) == (x = 0 /\ z % 2 = 0) \/ (x = g.width - 1 /\ z % 2 = 1)

\* C3, amended: on a grid of at least 2x2 vertices a corner vertex has 2
\* neighbours where its row is pulled in and 3 where it juts out; a vertex of
\* the first or last row that is no corner has 4; a vertex of the first or
\* last column that is no corner has 3 where its row is pulled in and 5 where
\* it juts out; an interior vertex has 6.
AdjacentCounts ==
  (op = "get_adjacent_vertices" /\ geometry.width >= 2 /\ Height(geometry) >= 2) =>
    CASE OnBorderX(geometry, arg[1]) /\ OnBorderZ(geometry, arg[2]) ->
           Len(ret) = (IF PulledIn(geometry, arg[1], arg[2]) THEN 2 ELSE 3)
      [] OnBorderX(geometry, arg[1]) ->
           Len(ret) = (IF PulledIn(geometry, arg[1], arg[2]) THEN 3 ELSE 5)
      [] OnBorderZ(geometry, arg[2]) -> Len(ret) = 4
      [] OTHER -> Len(ret) = 6

\* A vertex of the first column, no corner, with five neighbours.
AdjacentCountsWitness ==
  /\ op = "get_adjacent_vertices"
  /\ arg[1] = 0
  /\ ~OnBorderZ(geometry, arg[2])
  /\ geometry.width >= 2
  /\ Len(ret) = 5

\* The six places C4 lists, in its order.
AdjacentCandidates(x, z) ==
  (IF z % 2 = 0
   THEN << <<x - 1, z - 1>>, <<x, z - 1>>, <<x - 1, z + 1>>, <<x, z + 1>> >>
   ELSE << <<x, z - 1>>, <<x + 1, z - 1>>, <<x, z + 1>>, <<x + 1, z + 1>> >>)
    \o << <<x - 1, z>>, <<x + 1, z>> >>

InGrid(g, p) == p[1] >= 0 /\ p[1] < g.width /\ p[2] >= 0 /\ p[2] < Height(g)

InRangeIndices(g, places) ==
  Only({ [k \in 1..Len(kept) |-> GetIndex(g, kept[k][1], kept[k][2])] :
         kept \in { SelectSeq(places, LAMBDA p : InGrid(g, p)) } })

\* C4: get_adjacent_vertices(x, z) returns, in this order, the indices of those
\* of (x-1,z-1), (x,z-1), (x-1,z+1), (x,z+1) for even z, or of (x,z-1),
\* (x+1,z-1), (x,z+1), (x+1,z+1) for odd z, and then of (x-1,z), (x+1,z), that
\* lie inside the grid, and nothing else; on a 4x4 grid (0,0) gives [4, 1] and
\* (1,1) gives [1, 2, 9, 10, 4, 6].
AdjacentsInOrder ==
  op = "get_adjacent_vertices" =>
    /\ ret = InRangeIndices(geometry, AdjacentCandidates(arg[1], arg[2]))
    /\ (geometry.width = 4 /\ Height(geometry) = 4 /\ arg = <<0, 0>>) => ret = <<4, 1>>
    /\ (geometry.width = 4 /\ Height(geometry) = 4 /\ arg = <<1, 1>>) =>
         ret = <<1, 2, 9, 10, 4, 6>>

\* The corner (0,0) of a 4x4 grid, four of whose six places are outside.
AdjacentsInOrderWitness ==
  /\ op = "get_adjacent_vertices"
  /\ geometry.width = 4 /\ Height(geometry) = 4
  /\ arg = <<0, 0>>
  /\ ret = <<4, 1>>

\* ------------------------------------------------------- position bands

\* The distance from the grid's origin at which row r begins, computed as
\* get_position computes it.
RowEdge(g, r) == F32Mul(F32Mul(F32FromInt(r), ROW_SPACING), g.resolution)

InRowBand(g, dz, r) == F32Le(RowEdge(g, r), dz) /\ F32Lt(dz, RowEdge(g, r + 1))

InColBand(g, dx, r, c) ==
  \E sx \in { F32Sub(dx, IF r % 2 = 1 THEN F32Mul(F32Half, g.resolution) ELSE F32Zero) } :
    /\ F32Le(F32Mul(F32FromInt(c), g.resolution), sx)
    /\ F32Lt(sx, F32Mul(F32FromInt(c + 1), g.resolution))

\* C5: for a position whose z is in row band r
\* (r*ROW_SPACING*resolution <= z - z_offset < (r+1)*ROW_SPACING*resolution)
\* and whose x, less half a resolution when r is odd, is in column band c,
\* get_index_from_position returns c + r*width; on the 4x4 unit grid
\* (0.5, _, 0.5) gives 0, (1.49, _, 1.0) gives 4 and (1.51, _, 1.0) gives 5.
FloorsByBand ==
  op = "get_index_from_position" =>
    /\ \E dx \in { F32Sub(arg[0], geometry.x_offset) },
          dz \in { F32Sub(arg[2], geometry.z_offset) } :
         \A r \in 0..(MaxQueryRow + 1), c \in 0..MaxQueryCol :
           (InRowBand(geometry, dz, r) /\ InColBand(geometry, dx, r, c)) =>
             ret = c + r * geometry.width
    /\ geometry = NewGeometry(4, 4, F32Zero, F32Zero, F32One) =>
         /\ arg = Vec3(F32Half, F32Zero, F32Half) => ret = 0
         /\ arg = Vec3(F32Lit(149, 100), F32Zero, F32One) => ret = 4
         /\ arg = Vec3(F32Lit(151, 100), F32Zero, F32One) => ret = 5

\* ------------------------------------------------ the detail of a tile

\* SimpleHeightmap.tile_size, as with_size sets it.
tile_size == 256

\* How many of the f32 just below 2^t have a logarithm to base 2 that f32
\* rounds to t, when ln is correctly rounded (a.log(2.0) is a.ln() / 2.0.ln()).
\* Below 1 every result ends as detail 1, from 2^8 on as tile_size - 1.
LogLift(t) == IF t < 3 THEN 0 ELSE IF t < 6 THEN 1 ELSE 3

FloorLog2V(a) ==
  IF IsNan(a) THEN F32Nan
  ELSE IF IsInf(a) THEN (IF a.s = 0 THEN a ELSE F32Nan)
  ELSE IF a.m = 0 THEN F32NegInf
  ELSE IF a.s = 1 THEN F32Nan
  ELSE Only({ F32FromInt(IF NormM(a) >= Two24 - LogLift(t + 1) THEN t + 1 ELSE t) :
              t \in { NormE(a) + 23 } })

\* a.log(2.0).floor()
F32FloorLog2(a) == Only({ FloorLog2V(x) : x \in {a} })

\* The integer that a whole f32 of magnitude below 2^24 stands for.
IntOf(a) ==
  (IF a.s = 1 THEN 0 - 1 ELSE 1) *
    (IF a.e >= 0 THEN a.m * 2^a.e ELSE a.m \div 2^(0 - a.e))

Exp2V(a) ==
  IF IsNan(a) THEN a
  ELSE IF IsInf(a) THEN (IF a.s = 0 THEN a ELSE F32Zero)
  ELSE Only({ IF k > 127 THEN F32Inf(0)
              ELSE IF k < F32MinExp THEN F32Zero
              ELSE IF k < 0 - 126 THEN F32Num(0, F32MinExp, 2^(k - F32MinExp))
              ELSE F32Num(0, k - 23, Two23) :
              k \in { IntOf(a) } })

\* f32::exp2 of a whole number
F32Exp2(a) == Only({ Exp2V(x) : x \in {a} })

\* center_x and center_z of the tile whose first vertex is (x, z)
CenterX(g, x) ==
  F32Add(F32Mul(F32Add(F32FromInt(x), F32Div(F32FromInt(tile_size), F32Two)),
                g.resolution),
         g.x_offset)
CenterZ(g, z) ==
  F32Add(F32Mul(F32Mul(F32Add(F32FromInt(z), F32Div(F32FromInt(tile_size), F32Two)),
                       g.resolution),
                ROW_SPACING),
         g.z_offset)

SumOfSquares(dx, dz) == F32Add(F32Mul(dx, dx), F32Mul(dz, dz))

\* distance_square
DistanceSquare(g, pos, x, z) ==
  Only({ SumOfSquares(dx, dz) :
         dx \in { F32Sub(pos[0], CenterX(g, x)) },
         dz \in { F32Sub(pos[2], CenterZ(g, z)) } })

\* tile_distance_square
TileDistanceSquare(g, pos, x, z) ==
  F32Div(DistanceSquare(g, pos, x, z),
         F32Mul(F32Mul(F32Mul(F32FromInt(tile_size), g.resolution),
                       F32FromInt(tile_size)),
                g.resolution))

\* A plausible slip: the detail is not capped at tile_size - 1.
GenLodUncapped(g, pos, x, z) ==
  F32ToUsize(F32Max(F32One, F32Exp2(F32FloorLog2(TileDistanceSquare(g, pos, x, z)))))

\* gen_lod
GenLod(g, pos, x, z) ==
  Min(F32ToUsize(F32Max(F32One, F32Exp2(F32FloorLog2(TileDistanceSquare(g, pos, x, z))))),
      tile_size - 1)

\* SimpleHeightmap::with_size
WithSize(width, height, x_offset, z_offset, resolution) ==
  /\ geometry = NewGeometry(width, height, x_offset, z_offset, resolution)
  /\ lods = [i \in 1..((width * height) \div (tile_size * tile_size)) |->
               [lod |-> UsizeMax, tile |-> [id |-> i, mesh |-> <<>>]]]
  /\ lod_zone = <<F32Nan, F32Nan>>
  /\ uploads = (width * height) \div (tile_size * tile_size)
  /\ calls = <<>>

\* The first vertices (x, z) of the tiles that update_lod's two loops visit.
TileOrigins(g) ==
  { <<i * tile_size, j * tile_size>> :
      i \in 0..((g.width - 1) \div tile_size), j \in 0..((Height(g) - 1) \div tile_size) }

\* The same tiles in the order update_lod visits them, x in the outer loop
\* and z in the inner one: the n-th one visited has index n - 1.
ScanOrder(g) ==
  [n \in 1..((((g.width - 1) \div tile_size) + 1) * (((Height(g) - 1) \div tile_size) + 1)) |->
     << ((n - 1) \div (((Height(g) - 1) \div tile_size) + 1)) * tile_size,
        ((n - 1) % (((Height(g) - 1) \div tile_size) + 1)) * tile_size >> ]

\* ------------------------------------------------------ gen_lod, alone

\* Widths and heights of the heightmaps, in half tiles.
MaxHalfTiles == 4

HmSizes == { (tile_size \div 2) * k : k \in 2..MaxHalfTiles }

\* Where the viewer stands, in 64ths of a world unit from the tile's centre.
\* 32768 and 262144 are 2 and 16 tile lengths away; (22439, -5776) and
\* (22900, -3530) are 2^29 - 15 and 2^29 - 12 in squared distance, next to the
\* 2^29 that is the square of sqrt(2) tile lengths.
ProbeOffsets ==
  { <<0, 0>>, <<6400, 0>>, <<22439, 0 - 5776>>, <<22900, 0 - 3530>>, <<32704, 0>>,
    <<32768, 0>>, <<96000, 96000>>, <<262080, 0>>, <<262144, 0>> }

Probes(g, x, z) ==
  { Vec3(F32Add(CenterX(g, x), F32Lit(o[1], 64)), F32Zero,
         F32Add(CenterZ(g, z), F32Lit(o[2], 64))) : o \in ProbeOffsets }
    \cup { Vec3(F32Nan, F32Zero, F32Nan), Vec3(F32Inf(0), F32Zero, F32Zero) }

\* A heightmap as with_size leaves it.
HmInit ==
  /\ \E w \in HmSizes, h \in HmSizes, p \in GridPlacements : WithSize(w, h, p[1], p[2], p[3])
  /\ mesh = NoMesh
  /\ NoGame
  /\ op = "new"
  /\ arg = <<>>
  /\ ret = <<>>

\* gen_lod for one tile and two viewers.
GenLodPair ==
  /\ op = "new"
  /\ \E t \in TileOrigins(geometry) :
       \E p \in Probes(geometry, t[1], t[2]), q \in Probes(geometry, t[1], t[2]) :
         /\ op' = "gen_lod"
         /\ arg' = [x |-> t[1], z |-> t[2], p |-> p, q |-> q]
         /\ ret' = [p |-> GenLod(geometry, p, t[1], t[2]),
                    q |-> GenLod(geometry, q, t[1], t[2])]
  /\ UNCHANGED <<geometry, cache, mesh, game>>

SpecGenLod == HmInit /\ [][GenLodPair]_vars

\* Whether a is a whole multiple of 2^-17 and below 2^13 in magnitude, and
\* that multiple.
IsFine(a) ==
  /\ IsNum(a)
  /\ \/ a.m = 0
     \/ /\ a.e + 17 <= 6
        /\ a.e + 17 > 0 - 24
        /\ (a.e + 17 >= 0 \/ a.m % 2^(0 - (a.e + 17)) = 0)
FineOf(a) ==
  (IF a.s = 1 THEN 0 - 1 ELSE 1) *
    (IF a.e + 17 >= 0 THEN a.m * 2^(a.e + 17) ELSE a.m \div 2^(0 - (a.e + 17)))

\* Whether a - c is a whole number of 64ths below 512, and that number.
IsOff64(a, c) ==
  /\ IsFine(a) /\ IsFine(c)
  /\ (FineOf(a) - FineOf(c)) % 2^11 = 0
  /\ (FineOf(a) - FineOf(c)) \div 2^11 \in (0 - 32767)..32767
Off64(a, c) == (FineOf(a) - FineOf(c)) \div 2^11

\* The viewer is at a whole number of 64ths from the tile's centre on both
\* axes; then the square of its distance, in 4096ths, without any rounding.
OnLattice(g, pos, x, z) ==
  IsOff64(pos[0], CenterX(g, x)) /\ IsOff64(pos[2], CenterZ(g, z))
ExactDistanceSquare(g, pos, x, z) ==
  Off64(pos[0], CenterX(g, x)) * Off64(pos[0], CenterX(g, x))
    + Off64(pos[2], CenterZ(g, z)) * Off64(pos[2], CenterZ(g, z))

\* C7, as stated: gen_lod is non-decreasing in the distance from the viewer
\* to the tile centre, and always returns a value in [1, tile_size - 1].
\* The distance is compared where it can be compared without rounding.
GenLodMonotoneInDistance ==
  op = "gen_lod" =>
    /\ ret.p \in 1..(tile_size - 1)
    /\ ret.q \in 1..(tile_size - 1)
    /\ ( /\ OnLattice(geometry, arg.p, arg.x, arg.z)
         /\ OnLattice(geometry, arg.q, arg.x, arg.z)
         /\ ExactDistanceSquare(geometry, arg.p, arg.x, arg.z)
              <= ExactDistanceSquare(geometry, arg.q, arg.x, arg.z) )
       => ret.p <= ret.q

\* C7, amended: gen_lod is non-decreasing in distance_square, the squared
\* distance from the viewer to the tile centre as gen_lod computes it in f32,
\* and for every viewer position it returns a value in [1, tile_size - 1].
GenLodMonotone ==
  op = "gen_lod" =>
    /\ ret.p \in 1..(tile_size - 1)
    /\ ret.q \in 1..(tile_size - 1)
    /\ F32Le(DistanceSquare(geometry, arg.p, arg.x, arg.z),
             DistanceSquare(geometry, arg.q, arg.x, arg.z))
       => ret.p <= ret.q

\* A viewer at the tile's centre and one sixteen tile lengths away.
GenLodMonotoneWitness ==
  /\ op = "gen_lod"
  /\ IsZero(DistanceSquare(geometry, arg.p, arg.x, arg.z))
  /\ ret.p = 1
  /\ ret.q = tile_size - 1
  /\ F32Le(DistanceSquare(geometry, arg.p, arg.x, arg.z),
           DistanceSquare(geometry, arg.q, arg.x, arg.z))

\* ------------------------------------------------ the tile mesh generator

Max(a, b) == IF a >= b THEN a ELSE b

\* `as u16`
U16(n) == n % 2^16

\* The six indices pushed for the idx_x-th vertex of the idx_z-th row, which
\* is in grid row z; width is as_geometry's local of that name.
QuadIndices(width, z, idx_x, idx_z) ==
  IF z % 2 = 0
  THEN << U16(idx_z + idx_x * width), U16(idx_z + (idx_x + 1) * width),
          U16(idx_z + 1 + idx_x * width),
          U16(idx_z + 1 + idx_x * width), U16(idx_z + (idx_x + 1) * width),
          U16(idx_z + 1 + (idx_x + 1) * width) >>
  ELSE << U16(idx_z + idx_x * width), U16(idx_z + 1 + (idx_x + 1) * width),
          U16(idx_z + 1 + idx_x * width),
          U16(idx_z + idx_x * width), U16(idx_z + (idx_x + 1) * width),
          U16(idx_z + 1 + (idx_x + 1) * width) >>

\* The locals of as_geometry when it reaches its loops.  vertices and indices
\* are the lengths of the two vectors, max_index the largest index pushed so
\* far (0 when none was), pushed and quads what the last row pushed.
AsGeometryEnter(g, lod, left_x, top_z, right_x, bottom_z) ==
  Only({ [pc |-> "rows", lod |-> lod,
          left_x |-> l, top_z |-> t, right_x |-> r, bottom_z |-> b,
          width |-> (r - l) \div lod, height |-> (b - t) \div lod,
          z |-> t, idx_z |-> 0,
          vertices |-> 0, indices |-> 0, max_index |-> 0,
          pushed |-> <<>>, quads |-> <<>>, error |-> FALSE] :
         l \in { Min(left_x, g.width) }, t \in { Min(top_z, Height(g)) },
         r \in { Min(right_x, g.width) }, b \in { Min(bottom_z, Height(g)) } })

\* How many times the inner loop runs: x goes from left_x in steps of lod
\* while x < right_x.
RowCount(m) ==
  IF m.left_x < m.right_x THEN ((m.right_x - m.left_x - 1) \div m.lod) + 1 ELSE 0

\* The vertices that one run of the inner loop pushes, as grid places.
RowVertices(m) == [k \in 1..RowCount(m) |-> << m.left_x + (k - 1) * m.lod, m.z >>]

\* The indices that one run of the inner loop pushes, vertex by vertex.  The
\* windows of this model are at least tile_size wide and high, so that
\* right_x - lod and bottom_z - lod do not go below zero.
RowQuads(m) ==
  [k \in 1..RowCount(m) |->
     IF m.left_x + (k - 1) * m.lod < m.right_x - m.lod /\ m.z < m.bottom_z - m.lod
     THEN QuadIndices(m.width, m.z, k - 1, m.idx_z)
     ELSE <<>>]

\* The largest of the indices in quads[lo..hi], 0 when there is none.
RECURSIVE QuadsMax(_, _, _)
QuadsMax(quads, lo, hi) ==
  IF lo > hi THEN 0
  ELSE IF lo = hi
       THEN (IF quads[lo] = <<>> THEN 0
             ELSE Max(Max(Max(quads[lo][1], quads[lo][2]), Max(quads[lo][3], quads[lo][4])),
                      Max(quads[lo][5], quads[lo][6])))
  ELSE Only({ Max(a, b) :
              a \in { QuadsMax(quads, lo, (lo + hi) \div 2) },
              b \in { QuadsMax(quads, ((lo + hi) \div 2) + 1, hi) } })

\* One pass of the outer loop.
AsGeometryRow(m) ==
  Only({ [m EXCEPT !.pushed = RowVertices(m),
                   !.quads = quads,
                   !.vertices = @ + RowCount(m),
                   !.indices = @ + 6 * Cardinality({ k \in 1..Len(quads) : quads[k] # <<>> }),
                   !.max_index = Max(@, QuadsMax(quads, 1, Len(quads))),
                   !.z = @ + m.lod,
                   !.idx_z = @ + 1] :
         quads \in { RowQuads(m) } })

\* A plausible slip: the error is reported only when both tests fail.
AsGeometryCheckBoth(m) ==
  [m EXCEPT !.pc = "done",
            !.error = (m.max_index # m.vertices /\ m.vertices > (2^16 - 1) + 1)]

\* After the loops: the check of the two vectors against each other.
AsGeometryCheck(m) ==
  [m EXCEPT !.pc = "done",
            !.error = (m.max_index # m.vertices \/ m.vertices > (2^16 - 1) + 1)]

\* ------------------------------------------------- as_geometry, alone

\* The detail that gen_lod can ask for: a power of two, or tile_size - 1.
MeshLods == { Min(2^k, tile_size - 1) : k \in 0..8 }

\* The tiles update_lod can build a mesh for: those that have a LoDTile.
BuildableTiles == { n \in 1..Len(ScanOrder(geometry)) : n <= Len(lods) }

\* update_lod's call of as_geometry for one tile.
MeshCall ==
  /\ op = "new"
  /\ \E n \in BuildableTiles, lod \in MeshLods :
       \E t \in { ScanOrder(geometry)[n] } :
         /\ arg' = << lod, t[1], t[2], t[1] + tile_size, t[2] + tile_size >>
         /\ mesh' = AsGeometryEnter(geometry, lod, t[1], t[2],
                                    t[1] + tile_size, t[2] + tile_size)
  /\ op' = "as_geometry"
  /\ UNCHANGED <<geometry, cache, ret, game>>

MeshRow ==
  /\ mesh.pc = "rows"
  /\ mesh.z < mesh.bottom_z
  /\ mesh' = AsGeometryRow(mesh)
  /\ UNCHANGED <<geometry, cache, op, arg, ret, game>>

MeshReturn ==
  /\ mesh.pc = "rows"
  /\ ~(mesh.z < mesh.bottom_z)
  /\ mesh' = AsGeometryCheck(mesh)
  /\ ret' = [vertices |-> mesh.vertices, indices |-> mesh.indices]
  /\ UNCHANGED <<geometry, cache, op, arg, game>>

MeshNext == MeshCall \/ MeshRow \/ MeshReturn

SpecMesh == HmInit /\ [][MeshNext]_vars

\* C6: for every mesh that update_lod can generate for a window of tile_size x
\* tile_size vertices, at any detail gen_lod can return, the largest index in
\* the index buffer equals vertex_count - 1, and vertex_count <= 65536.
MeshIndicesValid ==
  ( /\ mesh.pc = "done"
    /\ mesh.right_x - mesh.left_x = tile_size
    /\ mesh.bottom_z - mesh.top_z = tile_size ) =>
    /\ mesh.max_index = mesh.vertices - 1
    /\ mesh.vertices <= 2^16

\* ------------------------------------------------------- the tile cache

\* lod_zone_size
LodZoneSize(g) == F32Mul(F32FromInt(tile_size), g.resolution)

\* diff.0 <= lod_zone_size && diff.1 <= lod_zone_size
InLodZone(pos, zone, size) ==
  /\ F32Le(F32Abs(F32Sub(pos[0], zone[1])), size)
  /\ F32Le(F32Abs(F32Sub(pos[2], zone[2])), size)

\* A plausible slip: the zone is snapped to multiples of twice its size.
NewLodZoneDouble(pos, size) ==
  << F32Sub(pos[0], F32Rem(pos[0], F32Mul(size, F32Two))),
     F32Sub(pos[2], F32Rem(pos[2], F32Mul(size, F32Two))) >>

\* new_lod_zone
NewLodZone(pos, size) ==
  << F32Sub(pos[0], F32Rem(pos[0], F32Div(size, F32Two))),
     F32Sub(pos[2], F32Rem(pos[2], F32Div(size, F32Two))) >>

\* A plausible slip: every tile the scan visits is built anew.
LodAlwaysChanged(lod, stored) == TRUE

\* A plausible slip: a tile is rebuilt only when more detail is wanted.
LodChangedFiner(lod, stored) == lod < stored

\* lod != self.lods[index].lod
LodChanged(lod, stored) == lod # stored

\* gen_lod for every tile the loops visit, in their order.
WantedLods(g, pos) ==
  [n \in 1..Len(ScanOrder(g)) |-> GenLod(g, pos, ScanOrder(g)[n][1], ScanOrder(g)[n][2])]

\* The tiles after update_lod's loops, which visit the tiles in order until
\* the running index leaves lods.  A tile whose detail changed is replaced by
\* one built from as_geometry(lod, x, z, x + tile_size, z + tile_size); built
\* is the number of gpu::Model built before.
ScanTiles(g, tiles, wanted, built) ==
  [n \in 1..Len(tiles) |->
     IF n <= Len(wanted) /\ LodChanged(wanted[n], tiles[n].lod)
     THEN [lod |-> wanted[n],
           tile |-> [id |-> built + Cardinality({ k \in 1..n :
                                                   LodChanged(wanted[k], tiles[k].lod) }),
                     mesh |-> << wanted[n], ScanOrder(g)[n][1], ScanOrder(g)[n][2],
                                 ScanOrder(g)[n][1] + tile_size,
                                 ScanOrder(g)[n][2] + tile_size >>]]
     ELSE tiles[n]]

\* updated_tiles
UpdatedTiles(tiles, wanted) ==
  Cardinality({ n \in 1..Len(tiles) : n <= Len(wanted) /\ LodChanged(wanted[n], tiles[n].lod) })

\* How many update_lod calls a run makes.
MaxCalls == 3

\* Where the viewer stands when update_lod is called.
ViewerPlaces ==
  { <<0, 0>>, <<127, 50>>, <<256, 0>>, <<257, 0>>, <<1200, 900>>, <<6000, 0>> }
ViewerPositions ==
  { Vec3(F32FromInt(p[1]), F32Zero, F32FromInt(p[2])) : p \in ViewerPlaces }
    \cup { Vec3(F32Nan, F32Zero, F32Nan), Vec3(F32Inf(0), F32Zero, F32Zero) }

\* update_lod(pos) when the viewer is still inside the zone.
UpdateLodKeep(pos) ==
  /\ InLodZone(pos, lod_zone, LodZoneSize(geometry))
  /\ op' = "update_lod"
  /\ ret' = [scanned |-> FALSE, updated_tiles |-> 0]
  /\ UNCHANGED <<lods, lod_zone, uploads>>

\* update_lod(pos) when it scans the tiles.  lods[index] panics when the
\* loops visit more tiles than lods holds.
UpdateLodScan(pos) ==
  /\ ~InLodZone(pos, lod_zone, LodZoneSize(geometry))
  /\ \E wanted \in { WantedLods(geometry, pos) } :
       /\ lods' = ScanTiles(geometry, lods, wanted, uploads)
       /\ uploads' = uploads + UpdatedTiles(lods, wanted)
       /\ ret' = [scanned |-> TRUE, updated_tiles |-> UpdatedTiles(lods, wanted)]
       /\ IF Len(wanted) > Len(lods)
          THEN op' = "panic" /\ lod_zone' = lod_zone
          ELSE op' = "update_lod" /\ lod_zone' = NewLodZone(pos, LodZoneSize(geometry))

UpdateLod ==
  /\ op # "panic"
  /\ Len(calls) < MaxCalls
  /\ \E pos \in ViewerPositions :
       /\ arg' = pos
       /\ calls' = Append(calls, pos)
       /\ (UpdateLodKeep(pos) \/ UpdateLodScan(pos))
  /\ UNCHANGED <<geometry, mesh, game>>

SpecLod == HmInit /\ [][UpdateLod]_vars

\* C8: after an update_lod(p) call has returned, an update_lod(p) that follows
\* it at once with the same p builds no tile and leaves every tile's lod and
\* the lod_zone as they were.
DeadBandStable ==
  [][ (op = "update_lod" /\ calls' # calls /\ arg' = arg) =>
        /\ ret'.updated_tiles = 0
        /\ lods' = lods
        /\ lod_zone' = lod_zone
        /\ uploads' = uploads ]_vars

\* Two calls in a row from a place where lod_zone stays NaN, so that the
\* second one scans again.
DeadBandStableWitness ==
  /\ op = "update_lod"
  /\ Len(calls) >= 2
  /\ calls[Len(calls)] = calls[Len(calls) - 1]
  /\ ret.scanned
  /\ ret.updated_tiles = 0

\* C9: on a freshly constructed SimpleHeightmap the first update_lod call, for
\* any viewer position, scans all the tiles and builds every one of them, so
\* that afterwards no tile is left as with_size made it.
FirstCallBuildsAll ==
  Len(calls) = 1 =>
    /\ op = "update_lod"
    /\ ret.scanned
    /\ ret.updated_tiles = Len(lods)
    /\ \A n \in 1..Len(lods) : lods[n].lod # UsizeMax /\ lods[n].tile.mesh # <<>>

\* C10: in a scan a tile is replaced, by a newly built one of the detail
\* gen_lod gives, if and only if that detail differs from the tile's stored
\* lod; a tile whose detail is the stored one keeps its lod and its drawable.
CacheHitKeepsTile ==
  [][ (calls' # calls /\ ret'.scanned) =>
        \A n \in 1..Len(lods) :
          \E lod \in { GenLod(geometry, arg', ScanOrder(geometry)[n][1],
                              ScanOrder(geometry)[n][2]) } :
            /\ (lods'[n].tile.id # lods[n].tile.id) <=> (lod # lods[n].lod)
            /\ lod = lods[n].lod => lods'[n] = lods[n]
            /\ lod # lods[n].lod =>
                 /\ lods'[n].lod = lod
                 /\ lods'[n].tile.id > uploads
                 /\ lods'[n].tile.mesh[1] = lod ]_vars

\* A scan after the first one that kept some tiles and replaced others.
CacheHitKeepsTileWitness ==
  /\ op = "update_lod"
  /\ Len(calls) >= 2
  /\ ret.scanned
  /\ ret.updated_tiles > 0
  /\ ret.updated_tiles < Len(lods)

\* C11: update_lod(pos) scans the tiles exactly when the viewer is more than
\* zone_size = tile_size * resolution away from the stored lod_zone on the x
\* axis or on the z axis, or the zone is NaN; when it scans it evaluates every
\* tile and then sets lod_zone to pos - pos % (zone_size / 2) on both axes;
\* when it does not scan, lod_zone and all tiles are unchanged.
DeadBandTrigger ==
  [][ calls' # calls =>
        \E size \in { LodZoneSize(geometry) } :
          /\ ret'.scanned <=>
               \/ F32Gt(F32Abs(F32Sub(arg'[0], lod_zone[1])), size)
               \/ F32Gt(F32Abs(F32Sub(arg'[2], lod_zone[2])), size)
               \/ IsNan(lod_zone[1])
               \/ IsNan(lod_zone[2])
          /\ ret'.scanned =>
               /\ op' = "update_lod"
               /\ Len(lods') = Len(ScanOrder(geometry))
               /\ \A n \in 1..Len(lods') :
                    lods'[n].lod = GenLod(geometry, arg', ScanOrder(geometry)[n][1],
                                          ScanOrder(geometry)[n][2])
               /\ lod_zone' = << F32Sub(arg'[0], F32Rem(arg'[0], F32Div(size, F32Two))),
                                 F32Sub(arg'[2], F32Rem(arg'[2], F32Div(size, F32Two))) >>
          /\ ~ret'.scanned => lods' = lods /\ lod_zone' = lod_zone ]_vars

\* The same on a scan that returns, with a viewer whose place is a number.
DeadBandTriggerReturned ==
  [][ (calls' # calls /\ op' = "update_lod" /\ ~IsNan(arg'[0]) /\ ~IsNan(arg'[2])) =>
        \E size \in { LodZoneSize(geometry) } :
          /\ ret'.scanned <=>
               \/ F32Gt(F32Abs(F32Sub(arg'[0], lod_zone[1])), size)
               \/ F32Gt(F32Abs(F32Sub(arg'[2], lod_zone[2])), size)
               \/ IsNan(lod_zone[1])
               \/ IsNan(lod_zone[2])
          /\ ret'.scanned =>
               /\ \A n \in 1..Len(lods') :
                    lods'[n].lod = GenLod(geometry, arg', ScanOrder(geometry)[n][1],
                                          ScanOrder(geometry)[n][2])
               /\ lod_zone' = << F32Sub(arg'[0], F32Rem(arg'[0], F32Div(size, F32Two))),
                                 F32Sub(arg'[2], F32Rem(arg'[2], F32Div(size, F32Two))) >>
          /\ ~ret'.scanned => lods' = lods /\ lod_zone' = lod_zone ]_vars

\* ------------------------------------------------- the triangle under a place

\* A plausible slip: a place is out of bounds only when it fails on both axes.
OutOfBoundsBothAxes(g, pos) ==
  /\ \/ F32Lt(pos[0], F32Add(g.x_offset, F32Mul(F32One, g.resolution)))
     \/ F32Gt(pos[0], F32Add(g.x_offset,
                             F32Mul(F32Sub(F32FromInt(g.width), F32One), g.resolution)))
  /\ \/ F32Lt(pos[2], F32Add(g.z_offset, F32Mul(F32One, g.resolution)))
     \/ F32Gt(pos[2], F32Add(g.z_offset,
                             F32Mul(F32Mul(F32Sub(F32FromInt(Height(g)), F32One),
                                           g.resolution),
                                    ROW_SPACING)))

\* The four bounds tests of SimpleHeightmap::get_tri_from_position.
OutOfBounds(g, pos) ==
  \/ F32Lt(pos[0], F32Add(g.x_offset, F32Mul(F32One, g.resolution)))
  \/ F32Gt(pos[0], F32Add(g.x_offset,
                          F32Mul(F32Sub(F32FromInt(g.width), F32One), g.resolution)))
  \/ F32Lt(pos[2], F32Add(g.z_offset, F32Mul(F32One, g.resolution)))
  \/ F32Gt(pos[2], F32Add(g.z_offset,
                          F32Mul(F32Mul(F32Sub(F32FromInt(Height(g)), F32One),
                                        g.resolution),
                                 ROW_SPACING)))

\* The triangle returned out of bounds.
SentinelTri ==
  << Vec3(F32Zero, F32NegInf, F32Zero),
     Vec3(F32One, F32NegInf, F32Zero),
     Vec3(F32Zero, F32NegInf, F32One) >>

\* m * pos[0] + b for the line through `from` and `to`, with b taken at `at`.
LineAt(from, to, at, x) ==
  Only({ F32Add(F32Mul(m, x), F32Sub(p[2], F32Mul(m, p[0]))) :
         m \in { F32Div(F32Sub(to[2], from[2]), F32Sub(to[0], from[0])) },
         p \in { at } })

\* vtx_d
VtxD(g, vtx_a) ==
  GetIndex(g, IF (vtx_a \div g.width) % 2 = 0 THEN vtx_a % g.width
                                             ELSE (vtx_a % g.width) + 1,
           (vtx_a \div g.width) + 1)

\* What a call hands back: which case it took, the vertices of the triangle,
\* their places, and the entries of heights it read.  get_position panics on
\* reading heights past its end.
TriResult(g, case, vertices, read) ==
  IF \E n \in 1..Len(read) : read[n] >= g.len
  THEN [case |-> "panic", vertices |-> <<>>, tri |-> <<>>,
        read |-> SubSeq(read, 1, CHOOSE n \in 1..Len(read) :
                                   /\ read[n] >= g.len
                                   /\ \A k \in 1..(n - 1) : read[k] < g.len)]
  ELSE [case |-> case, vertices |-> vertices,
        tri |-> << GetPosition(g, vertices[1]), GetPosition(g, vertices[2]),
                   GetPosition(g, vertices[3]) >>,
        read |-> read]

\* The part of get_tri_from_position after the bounds tests.
TriFromVertex(g, pos, a, d) ==
  IF a >= g.len THEN TriResult(g, "1", <<>>, <<a>>)
  ELSE IF d >= g.len THEN TriResult(g, "1", <<>>, <<a, d>>)
  ELSE \* vtx_a_pos, vtx_d_pos
       Only({ IF F32Gt(pos[2], LineAt(pa, pd, pa, pos[0]))
              THEN TriResult(g, "1", <<a, d, d - 1>>, <<a, d, d - 1>>)
              ELSE IF a + 1 >= g.len THEN TriResult(g, "2", <<>>, <<a, d, a + 1>>)
              ELSE IF F32Lt(pos[2], Only({ LineAt(pd, pb, pb, pos[0]) :
                                           pb \in { GetPosition(g, a + 1) } }))
              THEN TriResult(g, "2", <<a, a + 1, d>>, <<a, d, a + 1>>)
              ELSE TriResult(g, "3", <<a + 1, d + 1, d>>, <<a, d, a + 1, d + 1>>) :
              pa \in { GetPosition(g, a) }, pd \in { GetPosition(g, d) } })

\* Heightmap::get_tri_from_position, which has no bounds tests.  A column or
\* row of usize::MAX gives an index past the end of heights, or none when
\* the sum overflows.
HeightmapTri(g, pos) ==
  Only({ IF F32ToUsize(UnposX(g, pos, unpos_z)) = UsizeMax \/ F32ToUsize(unpos_z) = UsizeMax
         THEN TriResult(g, "1", <<>>, << g.len >>)
         ELSE Only({ TriFromVertex(g, pos, a, VtxD(g, a)) :
                     a \in { GetIndexFromPosition(g, pos) } }) :
         unpos_z \in { F32Floor(F32Div(F32Div(F32Sub(pos[2], g.z_offset), g.resolution),
                                       ROW_SPACING)) } })

\* The six indices that Heightmap::as_geometry pushes while it visits the
\* vertex (x, z), none at the last column and in the last row.
HeightmapQuad(g, x, z) ==
  IF x < g.width - 1 /\ z < Height(g) - 1
  THEN IF z % 2 = 0
       THEN << GetIndex(g, x, z), GetIndex(g, x, z + 1), GetIndex(g, x + 1, z),
               GetIndex(g, x + 1, z), GetIndex(g, x, z + 1), GetIndex(g, x + 1, z + 1) >>
       ELSE << GetIndex(g, x, z), GetIndex(g, x + 1, z + 1), GetIndex(g, x + 1, z),
               GetIndex(g, x, z), GetIndex(g, x, z + 1), GetIndex(g, x + 1, z + 1) >>
  ELSE <<>>

\* SimpleHeightmap::get_tri_from_position
GetTriFromPosition(g, pos) ==
  IF OutOfBounds(g, pos)
  THEN [case |-> "out", vertices |-> <<>>, tri |-> SentinelTri, read |-> <<>>]
  ELSE Only({ TriFromVertex(g, pos, a, VtxD(g, a)) :
              a \in { GetIndexFromPosition(g, pos) } })

\* Bounds of the places asked about: the rows whose z is taken, and
\* coordinates in hundredths of a world unit from the grid's origin.
MaxTriRow == 5
TriHundredths == {0 - 100, 0, 25, 50, 100, 125, 149, 151, 200, 250, 300, 350}
TriXs(g) ==
  { F32Add(g.x_offset, F32Lit(n, 100)) : n \in TriHundredths }
    \cup { F32Inf(0), F32NegInf, F32Nan }
TriZs(g) ==
  { F32Add(g.z_offset, F32Lit(n, 100)) : n \in TriHundredths }
    \cup { RowZ(g, r) : r \in 0..MaxTriRow }
    \cup { F32Inf(0), F32NegInf, F32Nan }

\* get_tri_from_position of SimpleHeightmap for one place and, as reference,
\* that of Heightmap for the same place on the same grid.
TriFromPosition ==
  /\ op = "new"
  /\ \E x \in TriXs(geometry), z \in TriZs(geometry) :
       /\ op' = "get_tri_from_position"
       /\ arg' = Vec3(x, F32Zero, z)
       /\ ret' = GetTriFromPosition(geometry, Vec3(x, F32Zero, z))
                   @@ [reference |-> HeightmapTri(geometry, Vec3(x, F32Zero, z))]
  /\ UNCHANGED <<geometry, cache, mesh, game>>

SpecTri == GridInit /\ [][TriFromPosition]_vars

\* C12: for every position outside the checked bounds (x < x_offset +
\* resolution, x > x_offset + (width - 1) * resolution, or the corresponding
\* tests on z) get_tri_from_position returns the fixed triangle whose three
\* vertices have height negative infinity, without reading heights and
\* without panicking.
OutOfBoundsSentinel ==
  ( /\ op = "get_tri_from_position"
    /\ \/ F32Lt(arg[0], F32Add(geometry.x_offset, geometry.resolution))
       \/ F32Gt(arg[0], F32Add(geometry.x_offset,
                               F32Mul(F32FromInt(geometry.width - 1), geometry.resolution)))
       \/ F32Lt(arg[2], F32Add(geometry.z_offset, geometry.resolution))
       \/ F32Gt(arg[2], F32Add(geometry.z_offset,
                               F32Mul(F32Mul(F32FromInt(Height(geometry) - 1),
                                             geometry.resolution), ROW_SPACING))) ) =>
    /\ ret.case # "panic"
    /\ ret.read = <<>>
    /\ ret.tri = SentinelTri
    /\ \A n \in 1..3 : ret.tri[n][1] = F32NegInf

\* A place that fails one test only, on a grid that has places in bounds.
OutOfBoundsSentinelWitness ==
  /\ op = "get_tri_from_position"
  /\ geometry.width >= 3
  /\ Height(geometry) >= 3
  /\ F32Gt(arg[2], F32Add(geometry.z_offset,
                          F32Mul(F32Mul(F32FromInt(Height(geometry) - 1),
                                        geometry.resolution), ROW_SPACING)))
  /\ ~F32Lt(arg[0], F32Add(geometry.x_offset, geometry.resolution))
  /\ ~F32Gt(arg[0], F32Add(geometry.x_offset,
                           F32Mul(F32FromInt(geometry.width - 1), geometry.resolution)))
  /\ IsNum(arg[0])
  /\ ret.case = "out"

\* A place within the four bounds.
InBounds(g, pos) ==
  /\ F32Le(F32Add(g.x_offset, g.resolution), pos[0])
  /\ F32Le(pos[0], F32Add(g.x_offset, F32Mul(F32FromInt(g.width - 1), g.resolution)))
  /\ F32Le(F32Add(g.z_offset, g.resolution), pos[2])
  /\ F32Le(pos[2], F32Add(g.z_offset,
                          F32Mul(F32Mul(F32FromInt(Height(g) - 1), g.resolution),
                                 ROW_SPACING)))

\* z of the line through the vertices v and w at x, as the code evaluates it
\* with its slope taken from v to w and its intercept at vertex u.
EdgeZ(g, v, w, u, x) ==
  LineAt(GetPosition(g, v), GetPosition(g, w), GetPosition(g, u), x)

\* C13: for every in-bounds position get_tri_from_position returns exactly one
\* of the triangles [A,D,C], [A,B,D], [B,E,D], where A is
\* get_index_from_position(pos), D is one row south in A's column (A's row
\* even) or the next column (A's row odd), B = A+1, C = D-1, E = D+1: [A,D,C]
\* iff pos.z is strictly greater than line A-D at pos.x, otherwise [A,B,D] iff
\* pos.z is strictly less than line B-D at pos.x, otherwise [B,E,D].
SpatialCaseSplit ==
  (op = "get_tri_from_position" /\ InBounds(geometry, arg)) =>
    \E A \in { GetIndexFromPosition(geometry, arg) } :
      \E D \in { (A % geometry.width) + (IF (A \div geometry.width) % 2 = 0 THEN 0 ELSE 1)
                   + ((A \div geometry.width) + 1) * geometry.width } :
        /\ ret.case # "panic"
        /\ ret.vertices \in { <<A, D, D - 1>>, <<A, A + 1, D>>, <<A + 1, D + 1, D>> }
        /\ ret.vertices = <<A, D, D - 1>> <=>
             F32Gt(arg[2], EdgeZ(geometry, A, D, A, arg[0]))
        /\ ret.vertices = <<A, A + 1, D>> <=>
             /\ ~F32Gt(arg[2], EdgeZ(geometry, A, D, A, arg[0]))
             /\ F32Lt(arg[2], EdgeZ(geometry, D, A + 1, A + 1, arg[0]))

\* The same for the calls that return.
SpatialCaseSplitReturned ==
  (op = "get_tri_from_position" /\ InBounds(geometry, arg) /\ ret.case # "panic") =>
    \E A \in { GetIndexFromPosition(geometry, arg) } :
      \E D \in { (A % geometry.width) + (IF (A \div geometry.width) % 2 = 0 THEN 0 ELSE 1)
                   + ((A \div geometry.width) + 1) * geometry.width } :
        /\ ret.vertices \in { <<A, D, D - 1>>, <<A, A + 1, D>>, <<A + 1, D + 1, D>> }
        /\ ret.vertices = <<A, D, D - 1>> <=>
             F32Gt(arg[2], EdgeZ(geometry, A, D, A, arg[0]))
        /\ ret.vertices = <<A, A + 1, D>> <=>
             /\ ~F32Gt(arg[2], EdgeZ(geometry, A, D, A, arg[0]))
             /\ F32Lt(arg[2], EdgeZ(geometry, D, A + 1, A + 1, arg[0]))

\* ------------------------------------------------------------ f32::hypot

\* x * x for 0 <= x < 2^27, as <<hi, lo>> with value hi * 2^26 + lo.
SqWide(x) ==
  Only({ << (x \div 2^13) * (x \div 2^13) + c \div 2^13
              + ((c % 2^13) * 2^13 + (x % 2^13) * (x % 2^13)) \div 2^26,
            ((c % 2^13) * 2^13 + (x % 2^13) * (x % 2^13)) % 2^26 >> :
         c \in { 2 * (x \div 2^13) * (x % 2^13) } })

WideLe(a, b) == a[1] < b[1] \/ (a[1] = b[1] /\ a[2] <= b[2])

\* The largest r, built from bit k down, whose square is at most T.
RECURSIVE ISqrtBits(_, _, _)
ISqrtBits(T, r, k) ==
  IF k < 0 THEN r
  ELSE Only({ ISqrtBits(T, rr, k - 1) :
              rr \in { IF WideLe(SqWide(r + 2^k), T) THEN r + 2^k ELSE r } })

\* 16 * ma^2 + mb^2 * 4^(2 - d), cut to an integer, for 0 <= d <= 12; the
\* third component tells whether a fraction was cut.
HypotSum(ma, mb, d) ==
  Only({ << A[1] * 16 + A[2] \div 2^22 + B[1] + ((A[2] % 2^22) * 16 + B[2]) \div 2^26,
            ((A[2] % 2^22) * 16 + B[2]) % 2^26,
            B[3] >> :
         A \in { SqWide(ma) },
         B \in { Only({ IF d <= 2
                        THEN << q[1] * 4^(2 - d) + q[2] \div 2^(26 - 2 * (2 - d)),
                                (q[2] % 2^(26 - 2 * (2 - d))) * 4^(2 - d), FALSE >>
                        ELSE << q[1] \div 4^(d - 2),
                                q[2] \div 4^(d - 2) + (q[1] % 4^(d - 2)) * 2^(26 - 2 * (d - 2)),
                                q[2] % 4^(d - 2) # 0 >> :
                        q \in { SqWide(mb) } }) } })

\* sqrt(a^2 + b^2) rounded once, for two nonzero numbers with |a| >= |b|.
HypotV(a, b) ==
  IF NormE(a) - NormE(b) >= 13 THEN F32Abs(a)
  ELSE Only({ F32Round(0, r, NormE(a) - 2,
                       T[3] \/ SqWide(r) # << T[1], T[2] >>) :
              T \in { HypotSum(NormM(a), NormM(b), NormE(a) - NormE(b)) },
              r \in { ISqrtBits(HypotSum(NormM(a), NormM(b), NormE(a) - NormE(b)), 0, 26) } })

\* f32::hypot
F32Hypot(a, b) ==
  Only({ IF IsInf(x) \/ IsInf(y) THEN F32Inf(0)
         ELSE IF IsNan(x) \/ IsNan(y) THEN F32Nan
         ELSE IF IsZero(y) THEN F32Abs(x)
         ELSE IF IsZero(x) THEN F32Abs(y)
         ELSE IF MagLt(x, y) THEN HypotV(y, x) ELSE HypotV(x, y) :
         x \in {a}, y \in {b} })

\* ------------------------------------------------------ character physics

\* Vec3 - Vec3, Vec3::cross, Vec3::dot
Vec3Sub(a, b) == << F32Sub(a[0], b[0]), F32Sub(a[1], b[1]), F32Sub(a[2], b[2]) >>
Cross(l, r) ==
  Vec3(F32Sub(F32Mul(l[2], r[3]), F32Mul(l[3], r[2])),
       F32Sub(F32Mul(l[3], r[1]), F32Mul(l[1], r[3])),
       F32Sub(F32Mul(l[1], r[2]), F32Mul(l[2], r[1])))
Dot(l, r) ==
  F32Add(F32Add(F32Mul(l[0], r[0]), F32Mul(l[1], r[1])), F32Mul(l[2], r[2]))

\* The ground height under loc: hm_vertices, hm_normal, hm_d and height.
\* get_tri_from_position may panic.
GroundHeight(g, loc) ==
  Only({ IF t.case = "panic" THEN [panic |-> TRUE, height |-> F32Nan]
         ELSE Only({ [panic |-> FALSE,
                      height |-> F32Div(F32Sub(F32Sub(Dot(n, t.tri[1]),
                                                      F32Mul(n[0], loc[0])),
                                               F32Mul(n[2], loc[2])),
                                        n[1])] :
                     n \in { Only({ Cross(a, b) :
                                    a \in { Vec3Sub(t.tri[1], t.tri[3]) },
                                    b \in { Vec3Sub(t.tri[1], t.tri[2]) } }) } }) :
         t \in { GetTriFromPosition(g, loc) } })

\* CHAR_MAX_SPEED, CHAR_DECEL, CHAR_MAX_JUMP, CHAR_GRAVITY
CHAR_MAX_SPEED == F32Lit(2, 10)
CHAR_DECEL == F32Lit(5, 100)
CHAR_MAX_JUMP == F32Lit(2, 10)
CHAR_GRAVITY == F32Lit(2, 100)

\* CharacterState::new
NewCharacter(loc, vel, max_speed, decel, max_jump, gravity) ==
  [loc |-> loc, vel |-> vel, max_speed |-> max_speed, decel |-> decel,
   max_jump |-> max_jump, gravity |-> gravity]

\* A plausible slip: the acceleration reaches max_speed in four frames.
AccelFourFrames(c) == F32Add(c.decel, F32Div(c.max_speed, F32FromInt(4)))

\* accel and jump_accel
Accel(c) == F32Add(c.decel, F32Div(c.max_speed, F32FromInt(5)))
JumpAccel(c) == F32Add(c.gravity, F32Div(c.max_jump, F32FromInt(5)))

\* The four movement flags: the planar velocity <<x, z>> after them.
Steer(v, m, dir, accel) ==
  Only({ IF m.right THEN << F32Add(l[1], F32Mul(dir[2], accel)),
                            F32Sub(l[2], F32Mul(dir[0], accel)) >> ELSE l :
    l \in { Only({ IF m.left THEN << F32Sub(b[1], F32Mul(dir[2], accel)),
                                     F32Add(b[2], F32Mul(dir[0], accel)) >> ELSE b :
      b \in { Only({ IF m.backward THEN << F32Sub(f[1], F32Mul(dir[0], accel)),
                                           F32Sub(f[2], F32Mul(dir[2], accel)) >> ELSE f :
        f \in { IF m.forward THEN << F32Add(v[1], F32Mul(dir[0], accel)),
                                     F32Add(v[2], F32Mul(dir[2], accel)) >> ELSE v } }) } }) } })

\* A plausible slip: the jump budget is not counted down.
JumpNoCountdown(c, m, height) ==
  IF m.jumping /\ F32Le(c.loc[1], height)
  THEN [can_jump |-> 5, vy |-> F32Add(c.vel[1], JumpAccel(c)), jumped |-> TRUE]
  ELSE IF m.jumping /\ m.can_jump > 0
  THEN [can_jump |-> m.can_jump, vy |-> F32Add(c.vel[1], JumpAccel(c)), jumped |-> TRUE]
  ELSE [can_jump |-> m.can_jump, vy |-> c.vel[1], jumped |-> FALSE]

\* if movement.jumping { .. }: can_jump, vel[1], and whether jump_accel was
\* applied.
Jump(c, m, height) ==
  IF m.jumping /\ F32Le(c.loc[1], height)
  THEN [can_jump |-> 5, vy |-> F32Add(c.vel[1], JumpAccel(c)), jumped |-> TRUE]
  ELSE IF m.jumping /\ m.can_jump > 0
  THEN [can_jump |-> m.can_jump - 1, vy |-> F32Add(c.vel[1], JumpAccel(c)),
        jumped |-> TRUE]
  ELSE [can_jump |-> m.can_jump, vy |-> c.vel[1], jumped |-> FALSE]

\* A plausible slip: the speed is not capped.
MultiplierNoCap(c, char_speed) ==
  F32Max(F32Zero, F32Div(F32Sub(char_speed, c.decel), char_speed))

\* A plausible slip: the friction multiplier is not kept from going negative.
MultiplierNoFloor(c, char_speed) ==
  IF F32Gt(F32Sub(char_speed, c.decel), c.max_speed)
  THEN F32Div(c.max_speed, char_speed)
  ELSE F32Div(F32Sub(char_speed, c.decel), char_speed)

\* multiplier
Multiplier(c, char_speed) ==
  IF F32Gt(F32Sub(char_speed, c.decel), c.max_speed)
  THEN F32Div(c.max_speed, char_speed)
  ELSE F32Max(F32Zero, F32Div(F32Sub(char_speed, c.decel), char_speed))

\* Gravity, the move and the collision with the ground, once the velocity
\* <<x, y, z>> after accelerations and friction is known.
Land(c, v, height) ==
  Only({ [c EXCEPT !.loc = Vec3(F32Add(c.loc[0], v[1]),
                                IF F32Le(y, height) THEN height ELSE y,
                                F32Add(c.loc[2], v[3])),
                   !.vel = Vec3(v[1], IF F32Le(y, height) THEN F32Zero ELSE vy, v[3])] :
         vy \in { F32Sub(v[2], c.gravity) },
         y \in { F32Add(c.loc[1], F32Sub(v[2], c.gravity)) } })

\* CharacterState::do_char_movement, after the ground height is known: the
\* character and the movement state it leaves, with the height it used,
\* whether jump_accel was applied, and loc[1] before the collision test.
Move(c, dir, m, height) ==
  Only({ Only({ [character |-> Land(c, << F32Mul(s[1], mult), j.vy, F32Mul(s[2], mult) >>,
                                    height),
                 movement |-> [m EXCEPT !.can_jump = j.can_jump],
                 height |-> height,
                 jumped |-> j.jumped,
                 integrated |-> F32Add(c.loc[1], F32Sub(j.vy, c.gravity)),
                 panic |-> FALSE] :
                mult \in { Multiplier(c, F32Hypot(s[1], s[2])) } }) :
         s \in { Steer(<< c.vel[0], c.vel[2] >>, m, dir, Accel(c)) },
         j \in { Jump(c, m, height) } })

\* CharacterState::do_char_movement
DoCharMovement(c, dir, m, g) ==
  Only({ IF h.panic
         THEN [character |-> c, movement |-> m, height |-> F32Nan, jumped |-> FALSE,
               integrated |-> F32Nan, panic |-> TRUE]
         ELSE Move(c, dir, m, h.height) :
         h \in { GroundHeight(g, c.loc) } })

\* The floor the character stands on: one tile of flat ground, placed as
\* run() places its floor.
FloorInit ==
  /\ WithSize(tile_size, tile_size, F32FromInt(0 - 100), F32Neg(F32Lit(866, 10)), F32One)
  /\ mesh = NoMesh

\* let mut movement = MovementState { .. }
NoKeys ==
  [forward |-> FALSE, backward |-> FALSE, left |-> FALSE, right |-> FALSE,
   jumping |-> FALSE, can_jump |-> 0]

\* What one do_char_movement call leaves in the variables.  arg keeps what the
\* call was given, and with it run, the number of calls in a row that were
\* given these keys and this direction, start, the character that the first
\* of them was given, and grounded, whether that character was on the ground.
TickTo(r) ==
  /\ character' = r.character
  /\ movement' = r.movement
  /\ \E held \in { /\ arg # <<>>
                    /\ [arg.movement EXCEPT !.can_jump = 0] = [movement EXCEPT !.can_jump = 0]
                    /\ arg.dir = camera.dir } :
       arg' = [character |-> character, movement |-> movement, dir |-> camera.dir,
               run |-> IF held THEN arg.run + 1 ELSE 1,
               start |-> IF held THEN arg.start ELSE character,
               grounded |-> IF held THEN arg.grounded
                            ELSE F32Le(character.loc[1], r.height)]
  /\ ret' = [height |-> r.height, jumped |-> r.jumped, integrated |-> r.integrated]
  /\ op' = IF r.panic THEN "panic" ELSE "do_char_movement"

\* -------------------------------------------- do_char_movement, one call

\* Where the character starts and how fast it rises: at rest on the ground,
\* falling just above it, in the air, and off the heightmap.
Starts ==
  { << Vec3(F32FromInt(0 - 5), F32Zero, F32Zero), F32Zero >>,
    << Vec3(F32FromInt(0 - 5), F32Lit(1, 100), F32Zero), F32Neg(F32Lit(3, 10)) >>,
    << Vec3(F32FromInt(0 - 5), F32One, F32Zero), F32Zero >>,
    << Vec3(F32FromInt(0 - 150), F32Zero, F32Zero), F32Zero >> }

\* Its starting velocity on the XZ plane, in hundredths.
StartVels ==
  { <<0, 0>>, <<20, 0>>, <<300, 0>>, <<6, 0>>, <<5, 0>>, <<2, 0>>, <<3, 4>>, <<0 - 15, 20>>,
    <<10, 10>>, <<0 - 100, 25>> }

\* Unit-length camera directions on the XZ plane.
TickDirs == { Vec3(F32One, F32Zero, F32Zero), Vec3(F32Lit(6, 10), F32Zero, F32Lit(8, 10)) }

TickInit ==
  /\ FloorInit
  /\ \E s \in Starts, v \in StartVels :
       character = NewCharacter(s[1], Vec3(F32Lit(v[1], 100), s[2], F32Lit(v[2], 100)),
                                CHAR_MAX_SPEED, CHAR_DECEL, CHAR_MAX_JUMP, CHAR_GRAVITY)
  /\ movement \in [forward : BOOLEAN, backward : BOOLEAN, left : BOOLEAN,
                   right : BOOLEAN, jumping : BOOLEAN, can_jump : {0, 3}]
  /\ \E dir \in TickDirs : camera = [loc |-> character.loc, dir |-> dir]
  /\ frame = 0
  /\ pc = "none"
  /\ op = "new"
  /\ arg = <<>>
  /\ ret = <<>>

OneTick ==
  /\ op = "new"
  /\ \E r \in { DoCharMovement(character, camera.dir, movement, geometry) } : TickTo(r)
  /\ frame' = frame + 1
  /\ UNCHANGED <<geometry, cache, mesh, camera, pc>>

SpecTick == TickInit /\ [][OneTick]_vars

\* hypot(vel.x, vel.z)
PlanarSpeed(vel) == F32Hypot(vel[0], vel[2])

\* k units in the last place of the nonzero number b, and |a - b| being at
\* most that.
Ulps(k, b) == F32Round(0, k, NormE(b), FALSE)
Near(a, b, k) == F32Le(F32Abs(F32Sub(a, b)), Ulps(k, b))

NoFlag(m) == ~m.forward /\ ~m.backward /\ ~m.left /\ ~m.right

\* A component that kept its sign or became zero.
NotReversed(before, after) ==
  IsZero(after) \/ (IsNum(after) /\ IsNum(before) /\ ~IsZero(before) /\ after.s = before.s)

GroundClamp ==
  op = "do_char_movement" =>
    /\ F32Le(ret.height, character.loc[1])
    /\ F32Le(ret.integrated, ret.height) =>
         character.loc[1] = ret.height /\ IsZero(character.vel[1])

\* The same over the heightmap, where the ground height is a number.
GroundClampOverMap ==
  (op = "do_char_movement" /\ IsNum(ret.height)) =>
    /\ F32Le(ret.height, character.loc[1])
    /\ F32Le(ret.integrated, ret.height) =>
         character.loc[1] = ret.height /\ IsZero(character.vel[1])

\* ------------------------------------------------------- the main loop

\* How many times the loop of run() is entered, and how many input events
\* arrive in all.
MaxFrames == 7
MaxEvents == 3

\* The keys that are pressed and released in the runs explored.  S and D do
\* to the velocity what W and A do, with the sign changed.
Keys == { "W", "A", "Space" }

\* A plausible slip: releasing Space leaves can_jump as it is.
KeyboardInputKeepBudget(m, keycode, pressed) ==
  IF keycode = "W" THEN [m EXCEPT !.forward = pressed]
  ELSE IF keycode = "A" THEN [m EXCEPT !.left = pressed]
  ELSE IF keycode = "S" THEN [m EXCEPT !.backward = pressed]
  ELSE IF keycode = "D" THEN [m EXCEPT !.right = pressed]
  ELSE IF pressed THEN [m EXCEPT !.jumping = TRUE]
  ELSE [m EXCEPT !.jumping = FALSE]

\* match (keycode, state)
KeyboardInput(m, keycode, pressed) ==
  IF keycode = "W" THEN [m EXCEPT !.forward = pressed]
  ELSE IF keycode = "A" THEN [m EXCEPT !.left = pressed]
  ELSE IF keycode = "S" THEN [m EXCEPT !.backward = pressed]
  ELSE IF keycode = "D" THEN [m EXCEPT !.right = pressed]
  ELSE IF pressed THEN [m EXCEPT !.jumping = TRUE]
  ELSE [m EXCEPT !.jumping = FALSE, !.can_jump = 0]

\* A plausible slip: the loop is entered without the update_lod before it.
MainInitNoUpdateLod ==
  /\ \E w \in HmSizes \ { tile_size } :
       WithSize(w, tile_size, F32FromInt(0 - 100), F32Neg(F32Lit(866, 10)), F32One)
  /\ mesh = NoMesh
  /\ movement = NoKeys
  /\ character = NewCharacter(Vec3(F32FromInt(0 - 5), F32Zero, F32Zero),
                              Vec3(F32Zero, F32Zero, F32Zero),
                              CHAR_MAX_SPEED, CHAR_DECEL, CHAR_MAX_JUMP, CHAR_GRAVITY)
  /\ camera = [loc |-> Vec3(F32FromInt(0 - 5), F32Add(F32Zero, F32Lit(5, 10)), F32Zero),
               dir |-> Vec3(F32One, F32Zero, F32Zero)]
  /\ frame = 0
  /\ pc = [at |-> "render", exit_flag |-> FALSE, events |-> 0]
  /\ op = "new"
  /\ arg = <<>>
  /\ ret = <<>>

\* run() up to the first update_lod: the floor, some tiles wide, nobody on the keys, the
\* character at rest and the camera half a unit above it.  pc is the place
\* in run(), exit_flag, and the number of input events so far.
MainInit ==
  /\ \E w \in HmSizes \ { tile_size } :
       WithSize(w, tile_size, F32FromInt(0 - 100), F32Neg(F32Lit(866, 10)), F32One)
  /\ mesh = NoMesh
  /\ movement = NoKeys
  /\ character = NewCharacter(Vec3(F32FromInt(0 - 5), F32Zero, F32Zero),
                              Vec3(F32Zero, F32Zero, F32Zero),
                              CHAR_MAX_SPEED, CHAR_DECEL, CHAR_MAX_JUMP, CHAR_GRAVITY)
  /\ camera = [loc |-> Vec3(F32FromInt(0 - 5), F32Add(F32Zero, F32Lit(5, 10)), F32Zero),
               dir |-> Vec3(F32One, F32Zero, F32Zero)]
  /\ frame = 0
  /\ pc = [at |-> "update_lod", exit_flag |-> FALSE, events |-> 0]
  /\ op = "new"
  /\ arg = <<>>
  /\ ret = <<>>

\* floor.update_lod(&camera.loc), before the loop and at the end of its body;
\* then while !exit_flag.
MainUpdateLod ==
  /\ pc.at = "update_lod"
  /\ op # "panic"
  /\ calls' = Append(calls, camera.loc)
  /\ (UpdateLodKeep(camera.loc) \/ UpdateLodScan(camera.loc))
  /\ pc' = [pc EXCEPT !.at = IF pc.exit_flag THEN "exit" ELSE "render"]
  /\ UNCHANGED <<geometry, mesh, character, movement, camera, frame, arg>>

\* frame += 1 and floor.render: the view is taken from camera.loc, and every
\* tile of lods is drawn.
Render ==
  /\ pc.at = "render"
  /\ op # "panic"
  /\ frame < MaxFrames
  /\ frame' = frame + 1
  /\ op' = "render"
  /\ ret' = [loc |-> camera.loc, lods |-> [n \in 1..Len(lods) |-> lods[n].lod]]
  /\ pc' = [pc EXCEPT !.at = "poll_events"]
  /\ UNCHANGED <<geometry, cache, mesh, character, movement, camera, arg>>

\* event_loop.poll_events: no event, a key pressed or released (one that
\* changes nothing is left out, it is the same as no event), the mouse
\* turning the camera on the XZ plane, or Q, Escape or CloseRequested.
PollEvents ==
  /\ pc.at = "poll_events"
  /\ \/ /\ pc' = [pc EXCEPT !.at = "do_char_movement"]
        /\ UNCHANGED <<movement, camera>>
     \/ /\ pc.events < MaxEvents
        /\ pc' = [pc EXCEPT !.at = "do_char_movement", !.events = pc.events + 1]
        /\ \E keycode \in Keys, pressed \in BOOLEAN :
             /\ movement' = KeyboardInput(movement, keycode, pressed)
             /\ movement' # movement
        /\ UNCHANGED camera
     \/ /\ pc.events < MaxEvents
        /\ pc' = [pc EXCEPT !.at = "do_char_movement", !.events = pc.events + 1]
        /\ \E dir \in TickDirs \ { camera.dir } : camera' = [camera EXCEPT !.dir = dir]
        /\ UNCHANGED movement
     \/ /\ pc.events < MaxEvents
        /\ pc' = [at |-> "do_char_movement", exit_flag |-> TRUE, events |-> pc.events + 1]
        /\ UNCHANGED <<movement, camera>>
  /\ UNCHANGED <<geometry, cache, mesh, character, frame, op, arg, ret>>

\* character.do_char_movement(&camera.dir, &mut movement, &floor) and the
\* camera update that follows it.
MainTick ==
  /\ pc.at = "do_char_movement"
  /\ \E r \in { DoCharMovement(character, camera.dir, movement, geometry) } :
       /\ TickTo(r)
       /\ camera' = IF r.panic THEN camera
                    ELSE [camera EXCEPT !.loc = Vec3(r.character.loc[0],
                                                     F32Add(r.character.loc[1], F32Lit(5, 10)),
                                                     r.character.loc[2])]
  /\ pc' = [pc EXCEPT !.at = "update_lod"]
  /\ UNCHANGED <<geometry, cache, mesh, frame>>

SpecMain == MainInit /\ [][MainUpdateLod \/ Render \/ PollEvents \/ MainTick]_vars

\* The character is at rest.
AtRest(c) == IsZero(c.vel[0]) /\ IsZero(c.vel[1]) /\ IsZero(c.vel[2])

\* C14: starting grounded at rest on flat ground with jump intent held and no
\* XZ input, the first tick sets can_jump to 5 and leaves vel.y = jump_accel -
\* gravity; on each of the 5 following ticks the character is airborne,
\* can_jump decreases by exactly 1 and jump acceleration is applied, so that
\* can_jump is 0 after the 5th of them and not before; from then on no jump
\* acceleration is applied while the character is airborne.
JumpBudget ==
  ( /\ op = "do_char_movement"
    /\ arg.movement.jumping /\ NoFlag(arg.movement)
    /\ arg.grounded /\ AtRest(arg.start) ) =>
    /\ arg.run = 1 =>
         /\ movement.can_jump = 5
         /\ ret.jumped
         /\ character.vel[1] = F32Sub(JumpAccel(character), character.gravity)
    /\ arg.run \in 2..6 =>
         /\ F32Gt(arg.character.loc[1], ret.height)
         /\ movement.can_jump = arg.movement.can_jump - 1
         /\ movement.can_jump = 6 - arg.run
         /\ ret.jumped
    /\ (arg.run > 6 /\ F32Gt(arg.character.loc[1], ret.height)) =>
         /\ movement.can_jump = 0
         /\ ~ret.jumped

\* The tick after the budget ran out, jump still held, in the air.
JumpBudgetWitness ==
  /\ op = "do_char_movement"
  /\ arg.movement.jumping /\ NoFlag(arg.movement)
  /\ arg.grounded /\ AtRest(arg.start)
  /\ arg.run = 7
  /\ F32Gt(arg.character.loc[1], ret.height)
  /\ arg.movement.can_jump = 0
  /\ ~ret.jumped

\* C15: for a character that starts at rest on the ground, after any
\* sequence of ticks and any pattern of jump intent, the upward velocity
\* vel.y never exceeds max_jump.
JumpSpeedCapped ==
  op = "do_char_movement" => F32Le(character.vel[1], character.max_jump)

\* Exactly one movement flag is held.
OneFlag(m) ==
  Cardinality({ k \in {"forward", "backward", "left", "right"} : m[k] }) = 1

UpdateBeforeRender ==
  op = "render" =>
    /\ Len(calls) = frame
    /\ calls[Len(calls)] = ret.loc
    /\ Len(ret.lods) > 0
    /\ \A n \in 1..Len(ret.lods) : ret.lods[n] # UsizeMax

\* A render pass after the character, and the camera with it, has moved.
UpdateBeforeRenderWitness ==
  /\ op = "render"
  /\ frame > 2
  /\ ret.loc # calls[1]
  /\ Len(ret.lods) > 1
  /\ \A n \in 1..Len(ret.lods) : ret.lods[n] # UsizeMax

\* ------------------------------------------ more about the tile meshes

GenLodPowerOfTwo ==
  op = "gen_lod" =>
    /\ ret.p \in { 2^k : k \in 0..8 } /\ tile_size % ret.p = 0
    /\ ret.q \in { 2^k : k \in 0..8 } /\ tile_size % ret.q = 0

\* The grid place of the n-th vertex of the mesh, counted from 0: the vertices
\* are pushed row after row, RowCount(m) to a row.
SampleOf(m, n) ==
  << m.left_x + (n % RowCount(m)) * m.lod, m.top_z + (n \div RowCount(m)) * m.lod >>

\* The two triangles of q, as grid places, are those of the quad whose top
\* left vertex is the first place named, split as the parity of that vertex's
\* row prescribes.
SplitByOwnRow(m, q) ==
  \E tl \in { SampleOf(m, q[1]) } :
    \E tr \in { << tl[1] + m.lod, tl[2] >> }, bl \in { << tl[1], tl[2] + m.lod >> },
       br \in { << tl[1] + m.lod, tl[2] + m.lod >> } :
      [k \in 1..6 |-> SampleOf(m, q[k])] =
        IF tl[2] % 2 = 0 THEN << tl, bl, tr, tr, bl, br >>
                         ELSE << tl, br, tr, tl, bl, br >>

\* C23: in the tile mesh generator the two triangles emitted for a quad of 4
\* adjacent sampled vertices split that quad along the diagonal prescribed by
\* the parity of the un-decimated grid row of the quad's own top edge (even
\* row: [top-left, bottom-left, top-right] and [top-right, bottom-left,
\* bottom-right]; odd row: [top-left, bottom-right, top-right] and [top-left,
\* bottom-left, bottom-right]).
DiagonalByRowParity ==
  mesh.pc = "rows" =>
    \A k \in 1..Len(mesh.quads) :
      mesh.quads[k] # <<>> => SplitByOwnRow(mesh, mesh.quads[k])

\* --------------------------------------------- more about the tile cache

\* C24: for every grid width and height accepted by with_size, the number of
\* LodTile entries allocated equals the number of tile origins that
\* update_lod visits, so that the running tile index used in update_lod is
\* always a valid index into the tile list.
OneTilePerScanStep ==
  /\ Len(lods) = Len(ScanOrder(geometry))
  /\ op # "panic"

\* ------------------------------- more about the triangle under a place

\* C25: for every position that passes the bounds check of
\* get_tri_from_position (positions exactly on the checked bounds included)
\* the vertices A, B, C, D, E it reads are valid grid indices, with B in A's
\* row and C, D, E in the row directly south of A: no index past the end of
\* the height array and no wrap into another row.  (The claim goes on to say
\* that the triangle returned contains the position.)
InBoundsQuerySafe ==
  (op = "get_tri_from_position" /\ InBounds(geometry, arg)) =>
    \E A \in { GetIndexFromPosition(geometry, arg) } :
      /\ ret.case # "panic"
      /\ \A n \in 1..Len(ret.read) : ret.read[n] < geometry.len
      /\ ret.read[1] = A
      /\ ret.read[2] \div geometry.width = (A \div geometry.width) + 1
      /\ ret.case = "1" => ret.read[3] \div geometry.width = (A \div geometry.width) + 1
      /\ ret.case \in {"2", "3"} => ret.read[3] \div geometry.width = A \div geometry.width
      /\ ret.case = "3" => ret.read[4] \div geometry.width = (A \div geometry.width) + 1

\* The triangles of the mesh that Heightmap::as_geometry makes of the grid,
\* each as the set of its three vertices.
MeshTriangles(g) ==
  UNION { { { q[1], q[2], q[3] }, { q[4], q[5], q[6] } } :
          q \in { HeightmapQuad(g, x, z) : x \in 0..(g.width - 2), z \in 0..(Height(g) - 2) } }

\* The vertices of the triangle that Heightmap::get_tri_from_position
\* returned are those of a triangle of the mesh.
ReturnedMeshTriangle ==
  ret.reference.case # "panic" =>
    { ret.reference.vertices[n] : n \in 1..3 } \in MeshTriangles(geometry)

\* C26 as stated: every triangle returned by get_tri_from_position for a
\* position strictly inside the grid, between its first and last column and
\* its first and last row, has the same three grid vertices as one of the
\* triangles emitted by Heightmap::as_geometry for the same grid.
QueryAgreesWithMesh ==
  ( /\ op = "get_tri_from_position"
    /\ F32Lt(geometry.x_offset, arg[0])
    /\ F32Lt(arg[0], F32Add(geometry.x_offset,
                            F32Mul(F32FromInt(geometry.width - 1), geometry.resolution)))
    /\ F32Lt(geometry.z_offset, arg[2])
    /\ F32Lt(arg[2], RowZ(geometry, Height(geometry) - 1)) ) =>
    ReturnedMeshTriangle

\* At least one resolution from the first column, short of the last column
\* and strictly between the first and the last row, the triangle returned is
\* one of the mesh.
QueryAgreesWithMeshPastFirstColumn ==
  ( /\ op = "get_tri_from_position"
    /\ F32Le(F32Add(geometry.x_offset, geometry.resolution), arg[0])
    /\ F32Lt(arg[0], F32Add(geometry.x_offset,
                            F32Mul(F32FromInt(geometry.width - 1), geometry.resolution)))
    /\ F32Lt(geometry.z_offset, arg[2])
    /\ F32Lt(arg[2], RowZ(geometry, Height(geometry) - 1)) ) =>
    ReturnedMeshTriangle

\* ------------------------------------------- the two mesh generators

\* The triangle with the vertex set t is one that Heightmap::as_geometry
\* emits for the grid: the least vertex of a triangle is the top-left one
\* of its quad, or the one right of it.
InHeightmapMesh(g, t) ==
  \E least \in { CHOOSE n \in t : \A k \in t : n <= k } :
    \E x \in { (least % g.width) - 1, least % g.width } :
      /\ x >= 0
      /\ \E q \in { HeightmapQuad(g, x, least \div g.width) } :
           /\ q # <<>>
           /\ t \in { { q[1], q[2], q[3] }, { q[4], q[5], q[6] } }

\* C27: SimpleHeightmapGeometry::as_geometry called with lod = 1 over the
\* whole grid pushes the vertices in the order of Heightmap::as_geometry,
\* row after row, and every triangle of its index buffer has the three grid
\* vertices of a triangle that Heightmap::as_geometry emits.
TiledMatchesReference ==
  ( /\ op = "as_geometry"
    /\ mesh.lod = 1
    /\ mesh.left_x = 0 /\ mesh.top_z = 0
    /\ mesh.right_x = geometry.width /\ mesh.bottom_z = Height(geometry) ) =>
    \A k \in 1..Len(mesh.pushed) :
      /\ (mesh.vertices - Len(mesh.pushed)) + (k - 1)
           = GetIndex(geometry, mesh.pushed[k][1], mesh.pushed[k][2])
      /\ mesh.quads[k] # <<>> =>
           /\ InHeightmapMesh(geometry, { mesh.quads[k][n] : n \in 1..3 })
           /\ InHeightmapMesh(geometry, { mesh.quads[k][n] : n \in 4..6 })

\* ------------------------------------------- more about update_lod

\* The viewer position of the last of the calls cs that scanned, when the
\* zone was zone before them and last was the last to scan before them.
RECURSIVE LastScan(_, _, _, _)
LastScan(g, zone, last, cs) ==
  IF cs = <<>> THEN last
  ELSE IF InLodZone(Head(cs), zone, LodZoneSize(g))
       THEN LastScan(g, zone, last, Tail(cs))
       ELSE LastScan(g, NewLodZone(Head(cs), LodZoneSize(g)), Head(cs), Tail(cs))

\* C28: on a grid whose width and height are multiples of tile_size, after
\* one or more update_lod calls every tile's stored lod is what gen_lod
\* gives for that tile at the viewer position of the most recent call that
\* scanned, and no tile has the lod usize::MAX.
StoredLodTracksLastScan ==
  ( /\ op = "update_lod"
    /\ geometry.width % tile_size = 0
    /\ Height(geometry) % tile_size = 0 ) =>
    \E pos \in { LastScan(geometry, <<F32Nan, F32Nan>>, <<>>, calls) } :
      /\ pos # <<>>
      /\ Len(lods) = Len(ScanOrder(geometry))
      /\ \A n \in 1..Len(lods) :
           /\ lods[n].lod = GenLod(geometry, pos, ScanOrder(geometry)[n][1],
                                   ScanOrder(geometry)[n][2])
           /\ lods[n].lod # UsizeMax

\* The last call did not scan, and gen_lod at its position would give some
\* tile another lod than the one stored by the call before it.
StoredLodTracksLastScanWitness ==
  /\ op = "update_lod"
  /\ geometry.width % tile_size = 0
  /\ Height(geometry) % tile_size = 0
  /\ Len(calls) >= 2
  /\ ~ret.scanned
  /\ LastScan(geometry, <<F32Nan, F32Nan>>, <<>>, calls) # arg
  /\ \E n \in 1..Len(lods) :
       lods[n].lod # GenLod(geometry, arg, ScanOrder(geometry)[n][1],
                            ScanOrder(geometry)[n][2])

\* ------------------------------------------- more about jumping

\* C29: releasing the jump key sets jumping = false and can_jump = 0,
\* pressing it again leaves can_jump at 0, and a tick that starts with the
\* character airborne (loc.y > h) and can_jump = 0 applies no jump
\* acceleration and leaves can_jump at 0: from the release on, no tick
\* applies jump acceleration until one starts with the character grounded.
NoMidAirRejump ==
  [][ /\ (pc.at = "poll_events" /\ movement.jumping /\ ~movement'.jumping) =>
           movement'.can_jump = 0
      /\ (pc.at = "poll_events" /\ movement'.jumping) =>
           movement'.can_jump = movement.can_jump
      /\ ( /\ pc.at = "do_char_movement"
           /\ op' = "do_char_movement"
           /\ movement.can_jump = 0
           /\ F32Gt(character.loc[1], ret'.height) ) =>
           /\ ~ret'.jumped
           /\ movement'.can_jump = 0 ]_vars

\* The third tick of run(), with Space pressed before the first, released
\* before the second and pressed again before the third: the character is
\* airborne and the tick applies no jump acceleration.
NoMidAirRejumpWitness ==
  /\ op = "do_char_movement"
  /\ frame = 3
  /\ movement.jumping
  /\ movement.can_jump = 0
  /\ arg.run = 1
  /\ F32Gt(arg.character.loc[1], ret.height)
  /\ ~ret.jumped

\* The viewer positions of those of the calls cs that scanned, in order, when
\* the zone was zone before them.
RECURSIVE ScanPositions(_, _, _)
ScanPositions(g, zone, cs) ==
  IF cs = <<>> THEN <<>>
  ELSE IF InLodZone(Head(cs), zone, LodZoneSize(g))
       THEN ScanPositions(g, zone, Tail(cs))
       ELSE << Head(cs) >> \o ScanPositions(g, NewLodZone(Head(cs), LodZoneSize(g)), Tail(cs))

\* q is more than zone_size / 2 from p along x or along z.
MovedHalfZone(g, p, q) ==
  \/ F32Gt(F32Abs(F32Sub(q[0], p[0])), F32Div(LodZoneSize(g), F32Two))
  \/ F32Gt(F32Abs(F32Sub(q[2], p[2])), F32Div(LodZoneSize(g), F32Two))

\* The viewer is less than zone_size / 2 from the zone along x and along z.
NearLodZone(g, pos, zone) ==
  /\ F32Lt(F32Abs(F32Sub(pos[0], zone[1])), F32Div(LodZoneSize(g), F32Two))
  /\ F32Lt(F32Abs(F32Sub(pos[2], zone[2])), F32Div(LodZoneSize(g), F32Two))

FinitePosition(pos) == pos[0].k = "num" /\ pos[2].k = "num"

====
